---- MODULE Spec2Model ----
(***************************************************************************)
(* Model of the voice-clone front end (visstt/voiseClone):                 *)
(*   - the upload / status-polling / response-loading pipeline of          *)
(*     VoiceRecorder.handleUploadAudio and the hooks useUploadAudio,       *)
(*     useAudioStatus and useChatResponses;                                *)
(*   - the playback arbiter of the hook useAudioPlayer.                    *)
(*   - the recording session of VoiceRecorder (startRecording,             *)
(*     stopRecording, the 1 s timer, the MediaRecorder and its events);    *)
(*   - the capture hook useAudioVisualization;                             *)
(*   - the bar-waveform renderer, the body of draw().                      *)
(* The JavaScript run time is a single-threaded event loop: every action   *)
(* below is one task (an event handler, a promise continuation or a timer  *)
(* callback) that runs to its next await.  Requests in flight and timers   *)
(* that are set are kept in the sequences `requests` and `timers`.         *)
(* Time is counted in seconds.                                             *)
(***************************************************************************)
EXTENDS Integers, Sequences, FiniteSets, Bags

\* ---------------------------------------------------------------- bounds
\* number of jobs the backend accepts in one run (identifiers 0..MaxJobs)
MaxJobs == 2
\* number of non-terminal status responses the backend gives for one job
MaxPolls == 2
\* number of response clips of a voice
MaxClips == 2
\* number of live audio elements at a time, counting the fallback fetches
\* in flight
MaxAudios == 2
\* number of recording sessions started in one run
MaxSessions == 3
\* number of dataavailable events a recorder fires when it stops
MaxChunks == 3
\* number of analysis frames counted in one session
MaxFrames == 3
\* number of failures (alerts, uncaught exceptions) counted in one run
MaxFailures == 1
\* number of seconds a recording lasts while an upload is followed
MaxSeconds == 1
\* number of startRecording() calls that wait behind the first
MaxWaiting == 1
\* number of animations the backend creates
MaxAnimations == 1
\* number of polling loops of animations started in one run
MaxLoops == 3
\* number of getAvatarAnimations requests in flight
MaxListRequests == 1
\* width of the rendering surface, in pixels
MaxWidth == 20
\* number of samples of an analysis frame (analyser.frequencyBinCount)
BufferLength == 3
\* number of bits of the significand of a number (a JavaScript number, an
\* IEEE 754 double, has 53)
Precision == 3

\* ------------------------------------------------------ program constants
\* setTimeout(checkStatus, 2000)
PollInterval == 2
\* setTimeout(() => onComplete(data), 25000)
CompletionDelay == 25
\* if (prev >= 60): the ceiling of the recording timer, in seconds
RecordingLimit == 60
\* const barWidth = 4; const barGap = 1
BarWidth == 4
BarGap == 1
\* the minimum visible height of a bar and the height of the canvas, in pixels
BaseHeightPx == 4
CanvasHeight == 120

Null == "null"
JobIds == 0 .. MaxJobs
VoiceIds == {"v1", "v2"}
ClipIds == {1, 2}
AnimationIds == 1 .. MaxAnimations
NonTerminal == {"pending", "processing"}
\* payloads of GET /audio/chat-responses: an array of clips (here the clips
\* 1..n of the voice, n = 0 being the empty array) or a body that is no array
Payload(isArray, n) == [isArray |-> isArray, items |-> [i \in 1 .. n |-> i]]
Payloads == {Payload(TRUE, n) : n \in 0 .. MaxClips} \cup {Payload(FALSE, 0)}

VARIABLES
  \* VoiceRecorder state
  audioURL,            \* TRUE when a recorded clip is held (audioURL !== null)
  showChatSection,
  voiceCloned,         \* onVoiceCloned(true) has been called
  \* useUploadAudio
  isUploading, uploadError,
  \* useAudioStatus
  isProcessing, clonedAudioData, processingError,
  \* useChatResponses
  isLoadingResponses, chatResponses, chatError,
  \* the event loop
  requests,            \* network requests in flight
  timers,              \* timers set and not yet fired
  unhandled,           \* number of promise rejections no handler received
  \* the backend's jobs and what was observed of them
  job,
  \* useAudioPlayer
  currentlyPlaying,    \* the clip id, 0 for null
  currentAudio,        \* the Audio element held, NoAudio for null
  playerError,
  orphans,             \* the live Audio elements the hook no longer holds
  fetches,             \* fallback fetches in flight (a bag of clips)
  lastCall             \* the last call of playChatResponse / stopPlaying

VARIABLES
  \* VoiceRecorder: the recording session (React state)
  isRecording,
  shown,               \* isRecording as of the last render: what the record
                       \* button and the closures of that render see
  recordingTime,
  starting,            \* a getUserMedia request is pending
  \* the refs of VoiceRecorder; the hook useAudioVisualization keeps refs of
  \* the same names, which these variables stand for in SpecVisualization
  timerRef,            \* TRUE: the 1 s interval is set
  streamRef, audioContextRef, analyserRef, mediaRecorderRef,   \* TRUE: set
  animationIdRef,      \* TRUE: an animation frame is requested
  isAnimatingRef,
  \* the devices behind the refs
  recorder,            \* the MediaRecorder last created
  mic,                 \* the tracks of the stream last acquired are live
  contextOpen,         \* the AudioContext last created is open
  canvas,              \* what the rendering surface shows: "blank" or "bars"
  \* what the caller and the user receive
  clips,               \* the clips passed to onAudioRecorded / onRecordingStop
                       \* since the last session started
  alerts,              \* number of alert() calls
  thrown,              \* number of exceptions no handler caught
  session              \* what happened in the session last started

VARIABLES
  \* the renderer: the canvas and what draw() computed for the last frame
  canvasWidth,         \* canvas.width
  dataArray,           \* the analysis frame last read
  dataIndices,         \* the index of the sample each bar was computed from
  barHeights, smoothedHeights,
  painted              \* the bars drawn since the surface was last cleared

VARIABLES
  \* startRecording() called again while getUserMedia is pending
  waiting,             \* number of further startRecording() calls that wait
  strays               \* number of live streams that streamRef lost

microphoneVars == <<waiting, strays>>

VARIABLES
  \* App
  isVoiceCloned,       \* the avatar tab is enabled
  clonedVoiceId

appVars == <<isVoiceCloned, clonedVoiceId>>

VARIABLES
  \* AnimationsList (React state and props)
  animations,          \* the list shown, newest first
  loading,
  listError,           \* error
  pollingAnimations,   \* the ids startPolling added and no handler removed
  newAnimation,        \* the prop: the animation AvatarAnimation started
  \* the requests in flight
  listRequests,        \* number of getAvatarAnimations requests
  creating,            \* the animation a POST /avatar/animate is answering
  polls,               \* the polling loops of pollAnimationStatus that run
  \* the backend
  serverStatus,        \* the status of each animation (Null: not created)
  \* what happened
  settled,             \* the polling loop that ended last
  started              \* number of polling loops started

animationVars == <<animations, loading, listError, pollingAnimations,
                   newAnimation, listRequests, creating, polls, serverStatus,
                   settled, started>>
recorderVars == <<isRecording, shown, recordingTime, starting, timerRef,
                  streamRef, audioContextRef, analyserRef, mediaRecorderRef,
                  animationIdRef, isAnimatingRef, recorder, mic, contextOpen,
                  canvas, clips, alerts, thrown, session>>
pipelineVars == <<audioURL, showChatSection, voiceCloned, isUploading,
                  uploadError, isProcessing, clonedAudioData, processingError,
                  isLoadingResponses, chatResponses, chatError, requests,
                  timers, unhandled, job>>
playerVars == <<currentlyPlaying, currentAudio, playerError, orphans, fetches,
                lastCall>>
rendererVars == <<canvasWidth, dataArray, dataIndices, barHeights,
                  smoothedHeights, painted>>
vars == <<pipelineVars, playerVars, recorderVars, rendererVars,
          microphoneVars, appVars, animationVars>>

\* ------------------------------------------------------------- helpers
RemoveAt(s, i) == SubSeq(s, 1, i - 1) \o SubSeq(s, i + 1, Len(s))

Request(op, id, awaited, voice) ==
  [op |-> op, id |-> id, awaited |-> awaited, voice |-> voice]

Timer(kind, id, left, voice) ==
  [kind |-> kind, id |-> id, left |-> left, voice |-> voice]

NoData == [id |-> -1, status |-> Null, voiceId |-> Null]

\* what the backend and the client did for one job identifier:
\*   reqs     number of status requests issued for it
\*   nonterm  number of non-terminal status responses received
\*   terminal the response that ended polling (Null while there is none)
\*   voiceId  the voiceId of the completed response
\*   loads    the voiceIds the Response Loader was invoked with
\*   clock    seconds since the completed response (-1 before it)
NoJob == [created |-> FALSE, reqs |-> 0, nonterm |-> 0, terminal |-> Null,
          voiceId |-> Null, loads |-> <<>>, clock |-> -1]

\* an Audio element: the clip it plays, whether it was made for the direct
\* attempt or for the fallback, its state, whether its play event is queued
\* and not yet delivered, and its position (0 at the start, 1 past it).
\*   starting  play() was called, its promise is pending, nothing is heard
\*   playing   the promise is resolved, the clip is heard
\*   paused    paused after it had been playing
\*   aborted   paused while starting: the promise is about to be rejected
\*   errored   the error event fired while starting: likewise
\*   ended, failed
Audio(clip, kind) ==
  [clip |-> clip, kind |-> kind, st |-> "starting", evt |-> TRUE, time |-> 0]

\* no element
NoAudio == [clip |-> 0, kind |-> Null, st |-> Null, evt |-> FALSE, time |-> 0]
\* a call of the hook: the operation, the clip, the element it paused
Call(op, clip, stopped) == [op |-> op, clip |-> clip, stopped |-> stopped]
NoCall == Call(Null, 0, NoAudio)

\* the status requests of job id that are in flight
InFlight(id) == {i \in 1 .. Len(requests) :
                   requests[i].op = "status" /\ requests[i].id = id}
\* the poll timers of job id that are set
PollTimers(id) == {i \in 1 .. Len(timers) :
                     timers[i].kind = "poll" /\ timers[i].id = id}
DelayTimers(id) == {i \in 1 .. Len(timers) :
                      timers[i].kind = "delay" /\ timers[i].id = id}

InitPipelineVars ==
  /\ audioURL = FALSE
  /\ showChatSection = FALSE
  /\ voiceCloned = FALSE
  /\ isUploading = FALSE
  /\ uploadError = Null
  /\ isProcessing = FALSE
  /\ clonedAudioData = NoData
  /\ processingError = Null
  /\ isLoadingResponses = FALSE
  /\ chatResponses = <<>>
  /\ chatError = Null
  /\ requests = <<>>
  /\ timers = <<>>
  /\ unhandled = 0
  /\ job = [j \in JobIds |-> NoJob]

InitPlayerVars ==
  /\ currentlyPlaying = 0
  /\ currentAudio = NoAudio
  /\ playerError = Null
  /\ orphans = EmptyBag
  /\ fetches = EmptyBag
  /\ lastCall = NoCall

\* a MediaRecorder: its state, whether its stop event is queued, and the
\* audioChunks array of its handlers
NoRecorder == [state |-> "inactive", stopping |-> FALSE, chunks |-> <<>>]
\* a session: its number, the ticks of its timer, the automatic stops and
\* the analysis frames read
NoSession == [n |-> 0, ticks |-> 0, autoStops |-> 0, frames |-> 0]

InitRecorderVars ==
  /\ isRecording = FALSE
  /\ shown = FALSE
  /\ recordingTime = 0
  /\ starting = FALSE
  /\ timerRef = FALSE
  /\ streamRef = FALSE
  /\ audioContextRef = FALSE
  /\ analyserRef = FALSE
  /\ mediaRecorderRef = FALSE
  /\ animationIdRef = FALSE
  /\ isAnimatingRef = FALSE
  /\ recorder = NoRecorder
  /\ mic = FALSE
  /\ contextOpen = FALSE
  /\ canvas = "blank"
  /\ clips = <<>>
  /\ alerts = 0
  /\ thrown = 0
  /\ session = NoSession

\* the canvas as the component renders it (width={800}) before a frame is
\* read: new Uint8Array(bufferLength) is filled with zeros
InitRendererVars ==
  /\ canvasWidth = 800
  /\ dataArray = [k \in 1 .. BufferLength |-> 0]
  /\ dataIndices = <<>>
  /\ barHeights = <<>>
  /\ smoothedHeights = <<>>
  /\ painted = <<>>

\* no startRecording() is waiting, no stream has been acquired
InitMicrophoneVars ==
  /\ waiting = 0
  /\ strays = 0

\* App as constructed: useState(false), useState(null)
InitAppVars ==
  /\ isVoiceCloned = FALSE
  /\ clonedVoiceId = Null

\* an animation as the backend reports it
Animation(id, status) == [id |-> id, status |-> status]
NoAnimation == Animation(0, Null)
\* a polling loop of pollAnimationStatus: its number, the animation it polls, whether a
\* status request is in flight or the timer between two requests runs, the
\* number of requests it has made and of onUpdate calls it has made
Loop(n, id, phase, made, updates) ==
  [n |-> n, id |-> id, phase |-> phase, requests |-> made,
   updates |-> updates]
\* a loop that has ended: resolved with the animation of that status, or
\* rejected
Settled(loop, outcome, status) ==
  [n |-> loop.n, id |-> loop.id, outcome |-> outcome, status |-> status,
   requests |-> loop.requests, updates |-> loop.updates]
NoLoop == Settled(Loop(0, 0, Null, 0, 0), Null, Null)

\* AnimationsList as mounted for an avatar that has just been uploaded: the
\* mount effect has called loadAnimations(), newAnimation is undefined, the
\* avatar has no animation yet
InitAnimationVars ==
  /\ animations = <<>>
  /\ loading = TRUE
  /\ listError = Null
  /\ pollingAnimations = {}
  /\ newAnimation = NoAnimation
  /\ listRequests = 1
  /\ creating = NoAnimation
  /\ polls = EmptyBag
  /\ serverStatus = [id \in AnimationIds |-> Null]
  /\ settled = NoLoop
  /\ started = 0

Init ==
  /\ InitPipelineVars /\ InitPlayerVars /\ InitRecorderVars
  /\ InitRendererVars /\ InitMicrophoneVars
  /\ InitAppVars /\ InitAnimationVars

\* --------------------------------------------------- recording (stub)
\* mediaRecorder.onstop: the finished clip becomes the controller's clip
RecorderOnStop ==
  /\ audioURL' = TRUE
  /\ audioURL = FALSE
  /\ UNCHANGED <<showChatSection, voiceCloned, isUploading, uploadError,
                 isProcessing, clonedAudioData, processingError,
                 isLoadingResponses, chatResponses, chatError, requests,
                 timers, unhandled, job>>
  /\ UNCHANGED <<playerVars, recorderVars, rendererVars, microphoneVars>>
  /\ UNCHANGED <<appVars, animationVars>>

\* ------------------------------------------------- upload / poll / load
\* faulty variant of UploadAllowed: only the clip is asked for
UploadAllowedAnyTime == audioURL

\* the guard of handleUploadAudio (and of the upload button)
UploadAllowed ==
  audioURL /\ ~isUploading /\ ~isProcessing /\ ~isLoadingResponses

\* handleUploadAudio up to `await fetch(audioURL)`
HandleUploadAudio ==
  /\ UploadAllowed
  /\ showChatSection' = TRUE
  /\ isLoadingResponses' = TRUE
  /\ requests' = Append(requests, Request("blob", -1, FALSE, Null))
  /\ UNCHANGED <<audioURL, voiceCloned, isUploading, uploadError,
                 isProcessing, clonedAudioData, processingError,
                 chatResponses, chatError, timers, unhandled, job>>
  /\ UNCHANGED <<playerVars, recorderVars, rendererVars, microphoneVars>>
  /\ UNCHANGED <<appVars, animationVars>>

\* fetch(audioURL) and blob() succeeded; convertToMp3 returns the blob as
\* it is; uploadAudio runs up to `await axios.post`
BlobFetched(i) ==
  /\ requests[i].op = "blob"
  /\ isUploading' = TRUE
  /\ uploadError' = Null
  /\ requests' = Append(RemoveAt(requests, i),
                        Request("upload", -1, FALSE, Null))
  /\ UNCHANGED <<audioURL, showChatSection, voiceCloned, isProcessing,
                 clonedAudioData, processingError, isLoadingResponses,
                 chatResponses, chatError, timers, unhandled, job>>
  /\ UNCHANGED <<playerVars, recorderVars, rendererVars, microphoneVars>>
  /\ UNCHANGED <<appVars, animationVars>>

\* fetch(audioURL) rejected: the catch of handleUploadAudio
BlobFetchFailed(i) ==
  /\ requests[i].op = "blob"
  /\ isLoadingResponses' = FALSE
  /\ requests' = RemoveAt(requests, i)
  /\ UNCHANGED <<audioURL, showChatSection, voiceCloned, isUploading,
                 uploadError, isProcessing, clonedAudioData, processingError,
                 chatResponses, chatError, timers, unhandled, job>>
  /\ UNCHANGED <<playerVars, recorderVars, rendererVars, microphoneVars>>
  /\ UNCHANGED <<appVars, animationVars>>

\* pollAudioStatus(id, onComplete) up to the first `await axios.get`
StartPolling(id) ==
  /\ isProcessing' = TRUE
  /\ processingError' = Null
  /\ UNCHANGED isLoadingResponses

\* `if (audioId)` of handleUploadAudio
UploadAccepted(id) == id # 0

\* POST /audio/upload answered {id}: uploadAudio returns the id (finally:
\* isUploading false); handleUploadAudio starts polling when the id is truthy
\* and clears the loading flag otherwise.  The backend gives every job a new
\* identifier, greater than those it gave before.
UploadResponded(i, id) ==
  /\ requests[i].op = "upload"
  /\ \A k \in JobIds : job[k].created => k < id
  /\ isUploading' = FALSE
  /\ IF UploadAccepted(id)
       THEN /\ StartPolling(id)
            /\ requests' = Append(RemoveAt(requests, i),
                                  Request("status", id, TRUE, Null))
            /\ job' = [job EXCEPT ![id].created = TRUE, ![id].reqs = 1]
       ELSE /\ isLoadingResponses' = FALSE
            /\ requests' = RemoveAt(requests, i)
            /\ job' = [job EXCEPT ![id].created = TRUE]
            /\ UNCHANGED <<isProcessing, processingError>>
  /\ UNCHANGED <<audioURL, showChatSection, voiceCloned, uploadError,
                 clonedAudioData, chatResponses, chatError, timers,
                 unhandled>>
  /\ UNCHANGED <<playerVars, recorderVars, rendererVars, microphoneVars>>
  /\ UNCHANGED <<appVars, animationVars>>


\* faulty variant of UploadFailed: the loading flag is not cleared
UploadFailedKeepsLoading(i) ==
  /\ requests[i].op = "upload"
  /\ uploadError' = "Upload failed"
  /\ isUploading' = FALSE
  /\ requests' = RemoveAt(requests, i)
  /\ UNCHANGED <<audioURL, showChatSection, voiceCloned, isProcessing,
                 clonedAudioData, processingError, chatResponses, chatError,
                 timers, unhandled, job, isLoadingResponses>>
  /\ UNCHANGED <<playerVars, recorderVars, rendererVars, microphoneVars>>
  /\ UNCHANGED <<appVars, animationVars>>

\* POST /audio/upload failed (network failure or non-2xx status): uploadAudio
\* sets error, returns null; handleUploadAudio clears the loading flag
UploadFailed(i) ==
  /\ requests[i].op = "upload"
  /\ uploadError' = "Upload failed"
  /\ isUploading' = FALSE
  /\ isLoadingResponses' = FALSE
  /\ requests' = RemoveAt(requests, i)
  /\ UNCHANGED <<audioURL, showChatSection, voiceCloned, isProcessing,
                 clonedAudioData, processingError, chatResponses, chatError,
                 timers, unhandled, job>>
  /\ UNCHANGED <<playerVars, recorderVars, rendererVars, microphoneVars>>
  /\ UNCHANGED <<appVars, animationVars>>

\* an exception leaves checkStatus: the first call is awaited inside the try
\* of pollAudioStatus, whose catch reports it; a call made by the 2-second
\* timer has no caller, and its rejected promise has no handler
CheckStatusThrows(r, message) ==
  /\ IF r.awaited
       THEN /\ processingError' = message
            /\ isProcessing' = FALSE
            /\ UNCHANGED unhandled
       ELSE /\ unhandled' = unhandled + 1
            /\ UNCHANGED <<processingError, isProcessing>>
  /\ UNCHANGED <<clonedAudioData, timers>>


\* faulty variant of OnCompleted: onComplete delayed by the poll interval only
OnCompletedShortDelay(r, v) ==
  /\ clonedAudioData' = [id |-> r.id, status |-> "completed", voiceId |-> v]
  /\ isProcessing' = FALSE
  /\ timers' = Append(timers, Timer("delay", r.id, PollInterval, v))
  /\ UNCHANGED <<processingError, unhandled>>

\* faulty variant of OnCompleted: the next check is scheduled as well
OnCompletedKeepsPolling(r, v) ==
  /\ clonedAudioData' = [id |-> r.id, status |-> "completed", voiceId |-> v]
  /\ isProcessing' = FALSE
  /\ timers' = Append(Append(timers, Timer("delay", r.id, CompletionDelay, v)),
                      Timer("poll", r.id, PollInterval, Null))
  /\ UNCHANGED <<processingError, unhandled>>

\* checkStatus, data.status === "completed"; onComplete is delayed
OnCompleted(r, v) ==
  /\ clonedAudioData' = [id |-> r.id, status |-> "completed", voiceId |-> v]
  /\ isProcessing' = FALSE
  /\ timers' = Append(timers, Timer("delay", r.id, CompletionDelay, v))
  /\ UNCHANGED <<processingError, unhandled>>


\* faulty variant of OnFailed: "failed" is taken for a status still in progress
OnFailedKeepsPolling(r) ==
  /\ timers' = Append(timers, Timer("poll", r.id, PollInterval, Null))
  /\ UNCHANGED <<clonedAudioData, isProcessing, processingError, unhandled>>

\* checkStatus, data.status === "failed"
OnFailed(r) == CheckStatusThrows(r, "Voice cloning failed")


\* faulty variant of OnPending: polling gives up after the first non-terminal status
OnPendingCapped(r) ==
  /\ IF job[r.id].nonterm >= 1
       THEN /\ processingError' = "Processing timed out"
            /\ isProcessing' = FALSE
            /\ UNCHANGED timers
       ELSE /\ timers' = Append(timers, Timer("poll", r.id, PollInterval, Null))
            /\ UNCHANGED <<isProcessing, processingError>>
  /\ UNCHANGED <<clonedAudioData, unhandled>>

\* checkStatus, any other status: check again in 2 seconds
OnPending(r) ==
  /\ timers' = Append(timers, Timer("poll", r.id, PollInterval, Null))
  /\ UNCHANGED <<clonedAudioData, isProcessing, processingError, unhandled>>

\* GET /audio/status/{id} answered with status s (and voiceId v)
StatusResponded(i, s, v) ==
  /\ requests[i].op = "status"
  /\ s \in NonTerminal => job[requests[i].id].nonterm < MaxPolls
  /\ LET r == requests[i]
     IN  /\ requests' = RemoveAt(requests, i)
         /\ CASE s = "completed" ->
                   /\ OnCompleted(r, v)
                   /\ job' = [job EXCEPT ![r.id].terminal = "completed",
                                         ![r.id].voiceId = v,
                                         ![r.id].clock = 0]
              [] s = "failed" ->
                   /\ OnFailed(r)
                   /\ job' = [job EXCEPT ![r.id].terminal = "failed"]
              [] OTHER ->
                   /\ OnPending(r)
                   /\ job' = [job EXCEPT ![r.id].nonterm = @ + 1]
  /\ UNCHANGED <<audioURL, showChatSection, voiceCloned, isUploading,
                 uploadError, isLoadingResponses, chatResponses, chatError>>
  /\ UNCHANGED <<playerVars, recorderVars, rendererVars, microphoneVars>>
  /\ UNCHANGED <<appVars, animationVars>>

\* GET /audio/status/{id} failed (network failure or non-2xx status)
StatusRequestFailed(i) ==
  /\ requests[i].op = "status"
  /\ requests' = RemoveAt(requests, i)
  /\ CheckStatusThrows(requests[i], "Request failed")
  /\ job' = [job EXCEPT ![requests[i].id].terminal = "error"]
  /\ UNCHANGED <<audioURL, showChatSection, voiceCloned, isUploading,
                 uploadError, isLoadingResponses, chatResponses, chatError>>
  /\ UNCHANGED <<playerVars, recorderVars, rendererVars, microphoneVars>>
  /\ UNCHANGED <<appVars, animationVars>>


\* faulty variant of PollTimerFired: the timer is an interval timer, armed again
PollTimerFiredInterval(t) ==
  /\ timers[t].kind = "poll"
  /\ timers[t].left = 0
  /\ timers' = [timers EXCEPT ![t].left = PollInterval]
  /\ requests' = Append(requests, Request("status", timers[t].id, FALSE, Null))
  /\ job' = [job EXCEPT ![timers[t].id].reqs = @ + 1]
  /\ UNCHANGED <<audioURL, showChatSection, voiceCloned, isUploading,
                 uploadError, isProcessing, clonedAudioData, processingError,
                 isLoadingResponses, chatResponses, chatError, unhandled>>
  /\ UNCHANGED <<playerVars, recorderVars, rendererVars, microphoneVars>>
  /\ UNCHANGED <<appVars, animationVars>>

\* the 2-second timer calls checkStatus, which runs to `await axios.get`
PollTimerFired(t) ==
  /\ timers[t].kind = "poll"
  /\ timers[t].left = 0
  /\ timers' = RemoveAt(timers, t)
  /\ requests' = Append(requests, Request("status", timers[t].id, FALSE, Null))
  /\ job' = [job EXCEPT ![timers[t].id].reqs = @ + 1]
  /\ UNCHANGED <<audioURL, showChatSection, voiceCloned, isUploading,
                 uploadError, isProcessing, clonedAudioData, processingError,
                 isLoadingResponses, chatResponses, chatError, unhandled>>
  /\ UNCHANGED <<playerVars, recorderVars, rendererVars, microphoneVars>>
  /\ UNCHANGED <<appVars, animationVars>>

\* faulty variant of LoadChatResponses: the error of the last load is kept
LoadChatResponsesKeepsError(id, voiceId) ==
  /\ isLoadingResponses' = TRUE
  /\ UNCHANGED chatError
  /\ requests' = Append(requests, Request("load", id, FALSE, voiceId))

\* loadChatResponses(voiceId) up to `await axios.get`
LoadChatResponses(id, voiceId) ==
  /\ isLoadingResponses' = TRUE
  /\ chatError' = Null
  /\ requests' = Append(requests, Request("load", id, FALSE, voiceId))

\* the onVoiceCloned prop App passes to VoiceRecorder:
\* (success, voiceId) => { if (success && voiceId) handleVoiceCloned(voiceId) },
\* an argument that is not passed being undefined (Null here)
OnVoiceCloned(success, voiceId) ==
  IF success /\ voiceId # Null
    THEN /\ isVoiceCloned' = TRUE
         /\ clonedVoiceId' = voiceId
    ELSE UNCHANGED <<isVoiceCloned, clonedVoiceId>>

\* the 25-second timer calls onComplete(data): the callback handleUploadAudio
\* passed calls onVoiceCloned(true) and loadChatResponses(data.voiceId)
DelayTimerFired(t) ==
  /\ timers[t].kind = "delay"
  /\ timers[t].left = 0
  /\ timers' = RemoveAt(timers, t)
  /\ voiceCloned' = TRUE
  /\ OnVoiceCloned(TRUE, Null)
  /\ LoadChatResponses(timers[t].id, timers[t].voice)
  /\ job' = [job EXCEPT ![timers[t].id].loads = Append(@, timers[t].voice)]
  /\ UNCHANGED <<audioURL, showChatSection, isUploading, uploadError,
                 isProcessing, clonedAudioData, processingError,
                 chatResponses, unhandled>>
  /\ UNCHANGED <<playerVars, recorderVars, rendererVars, microphoneVars>>
  /\ UNCHANGED animationVars

\* faulty variant of LoadResponded: the clips received are added to those held
LoadRespondedMerges(i, p) ==
  /\ requests[i].op = "load"
  /\ requests' = RemoveAt(requests, i)
  /\ chatResponses' =
       IF p.isArray /\ Len(p.items) > 0
         THEN chatResponses \o
                SelectSeq(p.items,
                          LAMBDA c : \A k \in 1 .. Len(chatResponses) :
                                       chatResponses[k] # c)
         ELSE <<>>
  /\ isLoadingResponses' = FALSE
  /\ UNCHANGED <<audioURL, showChatSection, voiceCloned, isUploading,
                 uploadError, isProcessing, clonedAudioData, processingError,
                 chatError, timers, unhandled, job>>
  /\ UNCHANGED <<playerVars, recorderVars, rendererVars, microphoneVars>>
  /\ UNCHANGED <<appVars, animationVars>>

\* GET /audio/chat-responses answered with payload p
LoadResponded(i, p) ==
  /\ requests[i].op = "load"
  /\ requests' = RemoveAt(requests, i)
  /\ chatResponses' = IF p.isArray /\ Len(p.items) > 0 THEN p.items ELSE <<>>
  /\ isLoadingResponses' = FALSE
  /\ UNCHANGED <<audioURL, showChatSection, voiceCloned, isUploading,
                 uploadError, isProcessing, clonedAudioData, processingError,
                 chatError, timers, unhandled, job>>
  /\ UNCHANGED <<playerVars, recorderVars, rendererVars, microphoneVars>>
  /\ UNCHANGED <<appVars, animationVars>>

\* GET /audio/chat-responses failed
LoadFailed(i) ==
  /\ requests[i].op = "load"
  /\ requests' = RemoveAt(requests, i)
  /\ chatError' = "Failed to load chat responses"
  /\ isLoadingResponses' = FALSE
  /\ UNCHANGED <<audioURL, showChatSection, voiceCloned, isUploading,
                 uploadError, isProcessing, clonedAudioData, processingError,
                 chatResponses, timers, unhandled, job>>
  /\ UNCHANGED <<playerVars, recorderVars, rendererVars, microphoneVars>>
  /\ UNCHANGED <<appVars, animationVars>>

\* one second passes: every timer that is set comes one second nearer, and
\* the clock of every completed job advances (it stops at CompletionDelay)
Tick ==
  /\ \/ \E t \in 1 .. Len(timers) : timers[t].left > 0
     \/ \E id \in JobIds : job[id].clock \in 0 .. CompletionDelay - 1
  /\ timers' = [t \in 1 .. Len(timers) |->
                  [timers[t] EXCEPT !.left = IF @ > 0 THEN @ - 1 ELSE 0]]
  /\ job' = [id \in JobIds |->
               [job[id] EXCEPT !.clock =
                  IF @ \in 0 .. CompletionDelay - 1 THEN @ + 1 ELSE @]]
  /\ UNCHANGED <<audioURL, showChatSection, voiceCloned, isUploading,
                 uploadError, isProcessing, clonedAudioData, processingError,
                 isLoadingResponses, chatResponses, chatError, requests,
                 unhandled>>
  /\ UNCHANGED <<playerVars, recorderVars, rendererVars, microphoneVars>>
  /\ UNCHANGED <<appVars, animationVars>>

NextPipeline ==
  \/ RecorderOnStop
  \/ HandleUploadAudio
  \/ \E i \in 1 .. Len(requests) : BlobFetched(i)
  \/ \E i \in 1 .. Len(requests) : BlobFetchFailed(i)
  \/ \E i \in 1 .. Len(requests), id \in JobIds : UploadResponded(i, id)
  \/ \E i \in 1 .. Len(requests) : UploadFailed(i)
  \/ \E i \in 1 .. Len(requests), s \in NonTerminal \cup {"completed", "failed"},
        v \in VoiceIds : StatusResponded(i, s, v)
  \/ \E i \in 1 .. Len(requests) : StatusRequestFailed(i)
  \/ \E t \in 1 .. Len(timers) : PollTimerFired(t)
  \/ \E t \in 1 .. Len(timers) : DelayTimerFired(t)
  \/ \E i \in 1 .. Len(requests), p \in Payloads : LoadResponded(i, p)
  \/ \E i \in 1 .. Len(requests) : LoadFailed(i)
  \/ Tick

\* the pipeline of one VoiceRecorder, from its construction
SpecPipeline == Init /\ [][NextPipeline]_vars

\* ========================================================= useAudioPlayer
\* the bag with the one element a
One(a) == SetToBag({a})
\* an element of which an event can still arrive or that is heard
Live(a) == a.evt \/ a.st \in {"starting", "playing", "aborted", "errored"}
\* what is left of an element the hook lets go of: an element that is not
\* live is unreachable and is collected
LetGo(a) == IF Live(a) THEN One(a) ELSE EmptyBag
\* every element that exists: the one the hook holds and the orphans
Audios ==
  IF currentAudio = NoAudio THEN orphans ELSE orphans (+) One(currentAudio)
\* the elements of bag b that are heard
Playing(b) == {a \in BagToSet(b) : a.st = "playing"}
\* the number of elements that are heard
AudibleCount ==
  BagCardinality([a \in Playing(Audios) |-> CopiesIn(a, Audios)])
\* the clips that are heard
AudibleClips == {a.clip : a \in Playing(Audios)}
\* the clips the interface shows a play button for
Shown == {chatResponses[i] : i \in 1 .. Len(chatResponses)}
\* the elements an event can come from: the held one or the orphans
Elements(held) ==
  IF held THEN {currentAudio} \ {NoAudio} ELSE BagToSet(orphans)

\* element a becomes b; the hook holds what it held
Becomes(a, held, b) ==
  IF held
    THEN /\ currentAudio' = b
         /\ UNCHANGED orphans
    ELSE /\ orphans' = (orphans (-) One(a)) (+) LetGo(b)
         /\ UNCHANGED currentAudio

\* element a becomes b and its handler calls setCurrentAudio(null)
BecomesAndReleases(a, held, b) ==
  /\ currentAudio' = NoAudio
  /\ orphans' = IF held
                  THEN orphans (+) LetGo(b)
                  ELSE ((orphans (-) One(a)) (+) LetGo(b))
                         (+) LetGo(currentAudio)

\* audio.pause(); audio.currentTime = 0.  Pausing an element whose play()
\* promise is pending rejects that promise.
Paused(a) ==
  [a EXCEPT !.st = CASE @ = "playing" -> "paused"
                     [] @ = "starting" -> "aborted"
                     [] OTHER -> @,
            !.time = 0]

\* the element stopPlaying() pauses, as it is left (NoAudio: none is held)
StoppedAudio ==
  IF currentAudio # NoAudio THEN Paused(currentAudio) ELSE NoAudio

\* stopPlaying()
StopPlaying ==
  /\ currentAudio # NoAudio \/ currentlyPlaying # 0 \/ lastCall.op # "stop"
  /\ currentAudio' = NoAudio
  /\ orphans' = orphans (+) LetGo(StoppedAudio)
  /\ currentlyPlaying' = 0
  /\ lastCall' = Call("stop", 0, StoppedAudio)
  /\ UNCHANGED <<playerError, fetches>>
  /\ UNCHANGED <<pipelineVars, recorderVars, rendererVars, microphoneVars>>
  /\ UNCHANGED <<appVars, animationVars>>

\* playChatResponse(r, url), the clip r being the one currentlyPlaying
PlayToggle(r) ==
  /\ r \in Shown
  /\ currentlyPlaying = r
  /\ currentAudio' = NoAudio
  /\ orphans' = orphans (+) LetGo(StoppedAudio)
  /\ currentlyPlaying' = 0
  /\ lastCall' = Call("toggle", r, StoppedAudio)
  /\ UNCHANGED <<playerError, fetches>>
  /\ UNCHANGED <<pipelineVars, recorderVars, rendererVars, microphoneVars>>
  /\ UNCHANGED <<appVars, animationVars>>

\* playChatResponse(r, url) for another clip: the current element, if any, is
\* stopped, a new element is made current and play() is called on it
PlayStart(r) ==
  /\ r \in Shown
  /\ currentlyPlaying # r
  /\ BagCardinality(Audios) + BagCardinality(fetches) < MaxAudios
  /\ currentAudio' = Audio(r, "direct")
  /\ orphans' = orphans (+) LetGo(StoppedAudio)
  /\ currentlyPlaying' =
       IF currentAudio # NoAudio THEN 0 ELSE currentlyPlaying
  /\ lastCall' = Call("play", r, StoppedAudio)
  /\ UNCHANGED <<playerError, fetches>>
  /\ UNCHANGED <<pipelineVars, recorderVars, rendererVars, microphoneVars>>
  /\ UNCHANGED <<appVars, animationVars>>

\* playChatResponse(r, url) when creating the element throws: the outer catch
PlayThrows(r) ==
  /\ r \in Shown
  /\ currentlyPlaying # r
  /\ currentAudio' = NoAudio
  /\ orphans' = orphans (+) LetGo(StoppedAudio)
  /\ currentlyPlaying' = 0
  /\ playerError' = "Failed to create audio player for chat response"
  /\ lastCall' = Call("play", r, StoppedAudio)
  /\ UNCHANGED fetches
  /\ UNCHANGED <<pipelineVars, recorderVars, rendererVars, microphoneVars>>
  /\ UNCHANGED <<appVars, animationVars>>

\* the play event of element a is delivered: onplay
OnPlay(a, held) ==
  /\ a.evt
  /\ Becomes(a, held, [a EXCEPT !.evt = FALSE])
  /\ currentlyPlaying' = a.clip
  /\ UNCHANGED <<playerError, fetches, lastCall>>
  /\ UNCHANGED <<pipelineVars, recorderVars, rendererVars, microphoneVars>>
  /\ UNCHANGED <<appVars, animationVars>>

\* element a has data to play: its play() promise resolves (no handler is
\* attached to the fulfilment), the clip is heard and its position moves on
Started(a, held) ==
  /\ a.st = "starting"
  /\ ~a.evt
  /\ Becomes(a, held, [a EXCEPT !.st = "playing", !.time = 1])
  /\ UNCHANGED <<currentlyPlaying, playerError, fetches, lastCall>>
  /\ UNCHANGED <<pipelineVars, recorderVars, rendererVars, microphoneVars>>
  /\ UNCHANGED <<appVars, animationVars>>

\* element a played to its end: onended
OnEnded(a, held) ==
  /\ a.st = "playing"
  /\ BecomesAndReleases(a, held, [a EXCEPT !.st = "ended"])
  /\ currentlyPlaying' = 0
  /\ UNCHANGED <<playerError, fetches, lastCall>>
  /\ UNCHANGED <<pipelineVars, recorderVars, rendererVars, microphoneVars>>
  /\ UNCHANGED <<appVars, animationVars>>

\* the error event of a direct element (the fallback element has no onerror)
OnError(a, held) ==
  /\ a.kind = "direct"
  /\ a.st \in {"starting", "playing"}
  /\ ~a.evt
  /\ BecomesAndReleases(a, held,
       [a EXCEPT !.st = IF @ = "starting" THEN "errored" ELSE "failed"])
  /\ currentlyPlaying' = 0
  /\ playerError' = "Failed to play chat response"
  /\ UNCHANGED <<fetches, lastCall>>
  /\ UNCHANGED <<pipelineVars, recorderVars, rendererVars, microphoneVars>>
  /\ UNCHANGED <<appVars, animationVars>>

\* the play() promise of element a is rejected.  An element still starting
\* is refused at once (its play event is then never delivered); an aborted
\* or errored one is rejected after its play event.
\* Direct element: the catch that starts the fallback fetch.
\* Fallback element: the inner catch, which reports the error.
PlayRejected(a, held) ==
  /\ \/ a.st = "starting" /\ a.evt
     \/ a.st \in {"aborted", "errored"} /\ ~a.evt
  /\ BecomesAndReleases(a, held, [a EXCEPT !.st = "failed", !.evt = FALSE])
  /\ currentlyPlaying' = 0
  /\ IF a.kind = "direct"
       THEN /\ fetches' = fetches (+) One(a.clip)
            /\ UNCHANGED playerError
       ELSE /\ playerError' = "Failed to play chat response"
            /\ UNCHANGED fetches
  /\ UNCHANGED lastCall
  /\ UNCHANGED <<pipelineVars, recorderVars, rendererVars, microphoneVars>>
  /\ UNCHANGED <<appVars, animationVars>>

\* the fallback fetch of clip c delivered the blob: a new element is made
\* current and play() is called on it
FetchDone(c) ==
  /\ BagIn(c, fetches)
  /\ fetches' = fetches (-) One(c)
  /\ currentAudio' = Audio(c, "fallback")
  /\ orphans' = orphans (+) LetGo(currentAudio)
  /\ UNCHANGED <<currentlyPlaying, playerError, lastCall>>
  /\ UNCHANGED <<pipelineVars, recorderVars, rendererVars, microphoneVars>>
  /\ UNCHANGED <<appVars, animationVars>>

\* faulty variant of FetchFailed: the error is reported, the active state is
\* left as it is
FetchFailedKeepsActive(c) ==
  /\ BagIn(c, fetches)
  /\ fetches' = fetches (-) One(c)
  /\ playerError' = "Failed to load chat response audio"
  /\ UNCHANGED <<currentlyPlaying, currentAudio, orphans, lastCall>>
  /\ UNCHANGED <<pipelineVars, recorderVars, rendererVars, microphoneVars>>
  /\ UNCHANGED <<appVars, animationVars>>

\* the fallback fetch of clip c failed
FetchFailed(c) ==
  /\ BagIn(c, fetches)
  /\ fetches' = fetches (-) One(c)
  /\ currentlyPlaying' = 0
  /\ currentAudio' = NoAudio
  /\ orphans' = orphans (+) LetGo(currentAudio)
  /\ playerError' = "Failed to load chat response audio"
  /\ UNCHANGED lastCall
  /\ UNCHANGED <<pipelineVars, recorderVars, rendererVars, microphoneVars>>
  /\ UNCHANGED <<appVars, animationVars>>

NextPlayer ==
  \/ StopPlaying
  \/ \E r \in ClipIds : PlayToggle(r)
  \/ \E r \in ClipIds : PlayStart(r)
  \/ \E r \in ClipIds : PlayThrows(r)
  \/ \E held \in BOOLEAN : \E a \in Elements(held) : OnPlay(a, held)
  \/ \E held \in BOOLEAN : \E a \in Elements(held) : Started(a, held)
  \/ \E held \in BOOLEAN : \E a \in Elements(held) : OnEnded(a, held)
  \/ \E held \in BOOLEAN : \E a \in Elements(held) : OnError(a, held)
  \/ \E held \in BOOLEAN : \E a \in Elements(held) : PlayRejected(a, held)
  \/ \E c \in ClipIds : FetchDone(c)
  \/ \E c \in ClipIds : FetchFailed(c)

\* the state in which the clips can be played: one job was uploaded,
\* completed at its first status check and two responses are loaded
InitPlayer ==
  /\ audioURL = TRUE
  /\ showChatSection = TRUE
  /\ voiceCloned = TRUE
  /\ isUploading = FALSE
  /\ uploadError = Null
  /\ isProcessing = FALSE
  /\ clonedAudioData = [id |-> 1, status |-> "completed", voiceId |-> "v1"]
  /\ processingError = Null
  /\ isLoadingResponses = FALSE
  /\ chatResponses = <<1, 2>>
  /\ chatError = Null
  /\ requests = <<>>
  /\ timers = <<>>
  /\ unhandled = 0
  /\ job = [j \in JobIds |->
              IF j = 1
                THEN [NoJob EXCEPT !.created = TRUE, !.reqs = 1,
                                   !.terminal = "completed", !.voiceId = "v1",
                                   !.loads = <<"v1">>,
                                   !.clock = CompletionDelay]
                ELSE NoJob]
  /\ InitPlayerVars
  /\ InitRecorderVars
  /\ InitRendererVars
  /\ InitMicrophoneVars
  /\ InitAppVars
  /\ InitAnimationVars

\* the player, from the state in which the responses are loaded
SpecPlayer == InitPlayer /\ [][NextPlayer]_vars

\* InitPlayer, a state the pipeline reaches
PlayerStartReached == InitPlayer

\* ================================================ recording (VoiceRecorder)
\* the pipeline state the recorder leaves alone
uploadVars == <<showChatSection, voiceCloned, isUploading, uploadError,
                isProcessing, clonedAudioData, processingError,
                isLoadingResponses, chatResponses, chatError, requests,
                timers, unhandled, job>>

\* the sizes of the blobs a recorder hands over when it stops, one per
\* dataavailable event (0: an empty blob)
ChunkData == UNION {[1 .. n -> {0, 1}] : n \in 1 .. MaxChunks}

\* mediaRecorder.ondataavailable for the k-th blob: an empty blob is dropped
OnDataAvailable(chunks, k, size) ==
  IF size > 0 THEN Append(chunks, k) ELSE chunks

\* audioChunks after the first k dataavailable events of data
RECURSIVE Gathered(_, _, _)
Gathered(chunks, data, k) ==
  IF k = 0
    THEN chunks
    ELSE OnDataAvailable(Gathered(chunks, data, k - 1), k, data[k])

\* a session that has just started: draw() has read its first frame
NewSession == [n |-> session.n + 1, ticks |-> 0, autoStops |-> 0,
               frames |-> 1]

\* stopAnimation() of VoiceRecorder: the loop is stopped and the requested
\* frame is cancelled; the surface is left as the last frame painted it
StopAnimation ==
  /\ isAnimatingRef' = FALSE
  /\ animationIdRef' = FALSE
  /\ UNCHANGED canvas

\* stopAnimation() of the hook: the same, and the surface is filled with the
\* background colour
HookStopAnimation ==
  /\ isAnimatingRef' = FALSE
  /\ animationIdRef' = FALSE
  /\ canvas' = "blank"

\* drawRealTimeWave(): the analyser and the canvas exist, the loop is started
\* and draw() runs once
DrawRealTimeWave ==
  /\ isAnimatingRef' = TRUE
  /\ animationIdRef' = TRUE
  /\ canvas' = "bars"

\* the body of initRealtimeVisualization / startVisualization after
\* getUserMedia has resolved; the recorder is then started
Acquired ==
  /\ streamRef' = TRUE
  /\ mic' = TRUE
  /\ audioContextRef' = TRUE
  /\ contextOpen' = TRUE
  /\ analyserRef' = TRUE
  /\ mediaRecorderRef' = TRUE
  /\ recorder' = [state |-> "recording", stopping |-> FALSE, chunks |-> <<>>]

\* mediaRecorder.stop() on a recorder that records: it becomes inactive and
\* its dataavailable and stop events are queued
Stopped(r) == [r EXCEPT !.state = "inactive", !.stopping = TRUE]

\* faulty variant of ReleaseStream: the tracks are left running
ReleaseStreamKeepsTracks ==
  /\ streamRef' = FALSE
  /\ UNCHANGED mic

\* streamRef.current.getTracks().forEach(track => track.stop()), the ref is
\* set to null
ReleaseStream ==
  /\ streamRef' = FALSE
  /\ mic' = IF streamRef THEN FALSE ELSE mic

\* audioContextRef.current.close(), the ref is set to null
ReleaseContext ==
  /\ audioContextRef' = FALSE
  /\ contextOpen' = IF audioContextRef THEN FALSE ELSE contextOpen

\* faulty variant of StopRecording: the refresh loop is left running
StopRecordingKeepsLoop(seen) ==
  /\ UNCHANGED <<isAnimatingRef, animationIdRef, canvas>>
  /\ recorder' = IF mediaRecorderRef /\ seen /\ recorder.state = "recording"
                   THEN Stopped(recorder)
                   ELSE recorder
  /\ isRecording' = FALSE
  /\ timerRef' = FALSE
  /\ ReleaseStream
  /\ ReleaseContext
  /\ UNCHANGED <<analyserRef, mediaRecorderRef>>

\* stopRecording() of a render in which isRecording was `seen`, the recorder
\* accepting the stop() call if it is made
StopRecording(seen) ==
  /\ StopAnimation
  /\ recorder' = IF mediaRecorderRef /\ seen /\ recorder.state = "recording"
                   THEN Stopped(recorder)
                   ELSE recorder
  /\ isRecording' = FALSE
  /\ timerRef' = FALSE
  /\ ReleaseStream
  /\ ReleaseContext
  /\ UNCHANGED <<analyserRef, mediaRecorderRef>>

\* the record button while it shows "start": startRecording() up to its
\* await.  A second session is not started while one is being acquired or
\* is recording.
StartClicked ==
  /\ ~shown /\ ~isRecording /\ ~starting
  /\ session.n < MaxSessions
  /\ starting' = TRUE
  /\ UNCHANGED <<isRecording, shown, recordingTime, timerRef, streamRef,
                 audioContextRef, analyserRef, mediaRecorderRef,
                 animationIdRef, isAnimatingRef, recorder, mic, contextOpen,
                 clips, alerts, thrown, session>>
  /\ UNCHANGED canvas
  /\ UNCHANGED <<audioURL, uploadVars, playerVars, rendererVars, microphoneVars>>
  /\ UNCHANGED <<appVars, animationVars>>

\* getUserMedia resolved: initRealtimeVisualization returns true and
\* startRecording goes on.  The events of the previous recorder have been
\* delivered by then.
StartOk ==
  /\ starting
  /\ ~recorder.stopping
  /\ Acquired
  /\ isRecording' = TRUE
  /\ recordingTime' = 0
  /\ DrawRealTimeWave
  /\ timerRef' = TRUE
  /\ starting' = FALSE
  /\ session' = NewSession
  /\ clips' = <<>>
  /\ UNCHANGED <<shown, alerts, thrown>>
  /\ UNCHANGED <<audioURL, uploadVars, playerVars, rendererVars, microphoneVars>>
  /\ UNCHANGED <<appVars, animationVars>>

\* faulty variant of StartDenied: the user is not told
StartDeniedSilently ==
  /\ starting
  /\ alerts + thrown < MaxFailures
  /\ starting' = FALSE
  /\ UNCHANGED <<isRecording, shown, recordingTime, timerRef, streamRef,
                 audioContextRef, analyserRef, mediaRecorderRef,
                 animationIdRef, isAnimatingRef, recorder, mic, contextOpen,
                 clips, alerts, thrown, session>>
  /\ UNCHANGED canvas
  /\ UNCHANGED <<audioURL, uploadVars, playerVars, rendererVars, microphoneVars>>
  /\ UNCHANGED <<appVars, animationVars>>

\* getUserMedia rejected: initRealtimeVisualization returns false, the user
\* is alerted and startRecording returns
StartDenied ==
  /\ starting
  /\ alerts + thrown < MaxFailures
  /\ starting' = FALSE
  /\ alerts' = alerts + 1
  /\ UNCHANGED <<isRecording, shown, recordingTime, timerRef, streamRef,
                 audioContextRef, analyserRef, mediaRecorderRef,
                 animationIdRef, isAnimatingRef, recorder, mic, contextOpen,
                 clips, thrown, session>>
  /\ UNCHANGED canvas
  /\ UNCHANGED <<audioURL, uploadVars, playerVars, rendererVars, microphoneVars>>
  /\ UNCHANGED <<appVars, animationVars>>

\* faulty variant of TimerTick: the time wraps at the ceiling
TimerTickWraps ==
  /\ timerRef
  /\ recordingTime' = (recordingTime + 1) % (RecordingLimit + 1)
  /\ session' = [session EXCEPT !.ticks = @ + 1]
  /\ UNCHANGED <<isRecording, timerRef, streamRef, audioContextRef,
                 analyserRef, mediaRecorderRef, animationIdRef,
                 isAnimatingRef, recorder, mic, contextOpen>>
  /\ UNCHANGED <<shown, starting, clips, alerts, thrown>>
  /\ UNCHANGED canvas
  /\ UNCHANGED <<audioURL, uploadVars, playerVars, rendererVars, microphoneVars>>
  /\ UNCHANGED <<appVars, animationVars>>

\* the interval callback: the updater of setRecordingTime.  The stopRecording
\* it calls is the one of the render in which startRecording was called,
\* where isRecording was false.
TimerTick ==
  /\ timerRef
  /\ IF recordingTime >= RecordingLimit
       THEN /\ StopRecording(FALSE)
            /\ recordingTime' = RecordingLimit
            /\ session' = [session EXCEPT !.ticks = @ + 1,
                                          !.autoStops = @ + 1]
       ELSE /\ recordingTime' = recordingTime + 1
            /\ session' = [session EXCEPT !.ticks = @ + 1]
            /\ UNCHANGED <<isRecording, timerRef, streamRef, audioContextRef,
                           analyserRef, mediaRecorderRef, animationIdRef,
                           isAnimatingRef, recorder, mic, contextOpen,
                           canvas>>
  /\ UNCHANGED <<shown, starting, clips, alerts, thrown>>
  /\ UNCHANGED <<audioURL, uploadVars, playerVars, rendererVars, microphoneVars>>
  /\ UNCHANGED <<appVars, animationVars>>

\* the record button while it shows "stop": stopRecording() of the last
\* render, and the render that follows the click
StopClicked ==
  /\ shown
  /\ StopRecording(TRUE)
  /\ shown' = FALSE
  /\ UNCHANGED <<recordingTime, starting, clips, alerts, thrown, session>>
  /\ UNCHANGED <<audioURL, uploadVars, playerVars, rendererVars, microphoneVars>>
  /\ UNCHANGED <<appVars, animationVars>>

\* the same click when the recorder is inactive already and the browser
\* lets stop() throw InvalidStateError (others return silently, which is
\* StopClicked): stopRecording ends after stopAnimation()
StopClickedThrows ==
  /\ shown
  /\ mediaRecorderRef /\ recorder.state = "inactive"
  /\ alerts + thrown < MaxFailures
  /\ StopAnimation
  /\ thrown' = thrown + 1
  /\ UNCHANGED <<isRecording, shown, recordingTime, starting, timerRef,
                 streamRef, audioContextRef, analyserRef, mediaRecorderRef,
                 recorder, mic, contextOpen, clips, alerts, session>>
  /\ UNCHANGED <<audioURL, uploadVars, playerVars, rendererVars, microphoneVars>>
  /\ UNCHANGED <<appVars, animationVars>>

\* the render React schedules after a state update made outside a click
Render ==
  /\ shown # isRecording
  /\ shown' = isRecording
  /\ UNCHANGED <<isRecording, recordingTime, starting, timerRef, streamRef,
                 audioContextRef, analyserRef, mediaRecorderRef,
                 animationIdRef, isAnimatingRef, recorder, mic, contextOpen,
                 clips, alerts, thrown, session>>
  /\ UNCHANGED canvas
  /\ UNCHANGED <<audioURL, uploadVars, playerVars, rendererVars, microphoneVars>>
  /\ UNCHANGED <<appVars, animationVars>>

\* the animation frame callback draw(): the next frame is requested, an
\* analysis frame is read and its bars are painted.  (stopAnimation cancels
\* the request, so draw() never runs with isAnimatingRef false: its branch
\* that fills the surface with the background colour is never taken.)
Draw ==
  /\ animationIdRef /\ isAnimatingRef
  /\ session.frames < MaxFrames
  /\ session' = [session EXCEPT !.frames = @ + 1]
  /\ canvas' = "bars"
  /\ UNCHANGED <<isRecording, shown, recordingTime, starting, timerRef,
                 streamRef, audioContextRef, analyserRef, mediaRecorderRef,
                 animationIdRef, isAnimatingRef, recorder, mic, contextOpen,
                 clips, alerts, thrown>>
  /\ UNCHANGED <<audioURL, uploadVars, playerVars, rendererVars, microphoneVars>>
  /\ UNCHANGED <<appVars, animationVars>>

\* the browser ends a recorder all of whose tracks have been stopped
TracksEnded ==
  /\ recorder.state = "recording"
  /\ ~mic
  /\ recorder' = Stopped(recorder)
  /\ UNCHANGED <<isRecording, shown, recordingTime, starting, timerRef,
                 streamRef, audioContextRef, analyserRef, mediaRecorderRef,
                 animationIdRef, isAnimatingRef, mic, contextOpen, clips,
                 alerts, thrown, session>>
  /\ UNCHANGED canvas
  /\ UNCHANGED <<audioURL, uploadVars, playerVars, rendererVars, microphoneVars>>
  /\ UNCHANGED <<appVars, animationVars>>

\* the dataavailable events and the body of mediaRecorder.onstop: the clip
\* is built from audioChunks and handed to the caller
Finalized(data) ==
  /\ recorder' = [recorder EXCEPT !.stopping = FALSE, !.chunks = <<>>]
  /\ clips' = Append(clips, Gathered(recorder.chunks, data, Len(data)))
  /\ UNCHANGED session

\* the dataavailable and stop events of the recorder of VoiceRecorder
MediaRecorderOnStop(data) ==
  /\ recorder.stopping
  /\ Finalized(data)
  /\ audioURL' = TRUE
  /\ UNCHANGED <<isRecording, shown, recordingTime, starting, timerRef,
                 streamRef, audioContextRef, analyserRef, mediaRecorderRef,
                 animationIdRef, isAnimatingRef, mic, contextOpen, alerts,
                 thrown>>
  /\ UNCHANGED canvas
  /\ UNCHANGED <<uploadVars, playerVars, rendererVars, microphoneVars>>
  /\ UNCHANGED <<appVars, animationVars>>

\* the same events when building the clip throws (new Blob,
\* URL.createObjectURL): nothing is handed over
MediaRecorderOnStopThrows(data) ==
  /\ recorder.stopping
  /\ alerts + thrown < MaxFailures
  /\ recorder' = [recorder EXCEPT
                    !.stopping = FALSE,
                    !.chunks = Gathered(recorder.chunks, data, Len(data))]
  /\ thrown' = thrown + 1
  /\ UNCHANGED <<isRecording, shown, recordingTime, starting, timerRef,
                 streamRef, audioContextRef, analyserRef, mediaRecorderRef,
                 animationIdRef, isAnimatingRef, mic, contextOpen, clips,
                 alerts, session>>
  /\ UNCHANGED canvas
  /\ UNCHANGED <<audioURL, uploadVars, playerVars, rendererVars, microphoneVars>>
  /\ UNCHANGED <<appVars, animationVars>>

NextRecorder ==
  \/ StartClicked
  \/ StartOk
  \/ StartDenied
  \/ TimerTick
  \/ StopClicked
  \/ StopClickedThrows
  \/ Render
  \/ Draw
  \/ TracksEnded
  \/ \E data \in ChunkData : MediaRecorderOnStop(data)
  \/ \E data \in ChunkData : MediaRecorderOnStopThrows(data)

\* the recording session controller of one VoiceRecorder
SpecRecorder == Init /\ [][NextRecorder]_vars

\* ============================================ the hook useAudioVisualization
\* startVisualization() up to its await.  It is not called while a stream is
\* held or being acquired.
StartVisualization ==
  /\ ~starting /\ ~streamRef
  /\ session.n < MaxSessions
  /\ starting' = TRUE
  /\ UNCHANGED <<isRecording, shown, recordingTime, timerRef, streamRef,
                 audioContextRef, analyserRef, mediaRecorderRef,
                 animationIdRef, isAnimatingRef, recorder, mic, contextOpen,
                 clips, alerts, thrown, session>>
  /\ UNCHANGED canvas
  /\ UNCHANGED <<pipelineVars, playerVars, rendererVars, microphoneVars>>
  /\ UNCHANGED <<appVars, animationVars>>

\* getUserMedia resolved: the recorder is started and the loop is started
VisualizationStarted ==
  /\ starting
  /\ ~recorder.stopping
  /\ Acquired
  /\ DrawRealTimeWave
  /\ starting' = FALSE
  /\ session' = NewSession
  /\ clips' = <<>>
  /\ UNCHANGED <<isRecording, shown, recordingTime, timerRef, alerts,
                 thrown>>
  /\ UNCHANGED <<pipelineVars, playerVars, rendererVars, microphoneVars>>
  /\ UNCHANGED <<appVars, animationVars>>

\* getUserMedia rejected: the error is logged, false is returned
VisualizationFailed ==
  /\ starting
  /\ starting' = FALSE
  /\ UNCHANGED <<isRecording, shown, recordingTime, timerRef, streamRef,
                 audioContextRef, analyserRef, mediaRecorderRef,
                 animationIdRef, isAnimatingRef, recorder, mic, contextOpen,
                 clips, alerts, thrown, session>>
  /\ UNCHANGED canvas
  /\ UNCHANGED <<pipelineVars, playerVars, rendererVars, microphoneVars>>
  /\ UNCHANGED <<appVars, animationVars>>

\* faulty variant of StopVisualization: stop() is called on every recorder
\* the ref holds, which throws on an inactive one
StopVisualizationUnguarded ==
  /\ HookStopAnimation
  /\ recorder' = IF mediaRecorderRef /\ recorder.state # "inactive"
                   THEN Stopped(recorder)
                   ELSE recorder
  /\ thrown' = IF recorder.state = "inactive" /\ alerts + thrown < MaxFailures
                 THEN thrown + 1
                 ELSE thrown
  /\ ReleaseStream
  /\ ReleaseContext
  /\ analyserRef' = FALSE
  /\ UNCHANGED <<isRecording, shown, recordingTime, starting, timerRef,
                 mediaRecorderRef, clips, alerts, session>>
  /\ UNCHANGED <<pipelineVars, playerVars, rendererVars, microphoneVars>>
  /\ UNCHANGED <<appVars, animationVars>>

\* stopVisualization()
StopVisualization ==
  /\ HookStopAnimation
  /\ recorder' = IF mediaRecorderRef /\ recorder.state # "inactive"
                   THEN Stopped(recorder)
                   ELSE recorder
  /\ ReleaseStream
  /\ ReleaseContext
  /\ mediaRecorderRef' = FALSE
  /\ analyserRef' = FALSE
  /\ UNCHANGED <<isRecording, shown, recordingTime, starting, timerRef,
                 clips, alerts, thrown, session>>
  /\ UNCHANGED <<pipelineVars, playerVars, rendererVars, microphoneVars>>
  /\ UNCHANGED <<appVars, animationVars>>

\* the dataavailable and stop events of the recorder of the hook: the clip
\* is handed to onRecordingStop
HookRecorderOnStop(data) ==
  /\ recorder.stopping
  /\ Finalized(data)
  /\ UNCHANGED <<isRecording, shown, recordingTime, starting, timerRef,
                 streamRef, audioContextRef, analyserRef, mediaRecorderRef,
                 animationIdRef, isAnimatingRef, mic, contextOpen, alerts,
                 thrown>>
  /\ UNCHANGED canvas
  /\ UNCHANGED <<pipelineVars, playerVars, rendererVars, microphoneVars>>
  /\ UNCHANGED <<appVars, animationVars>>

NextVisualization ==
  \/ StartVisualization
  \/ VisualizationStarted
  \/ VisualizationFailed
  \/ StopVisualization
  \/ Draw
  \/ \E data \in ChunkData : HookRecorderOnStop(data)

\* one component that uses the hook useAudioVisualization
SpecVisualization == Init /\ [][NextVisualization]_vars

\* ============================================================ the renderer
\* Numbers are those of a binary floating-point format of Precision bits,
\* rounded to the nearest, ties to even, as the numbers of JavaScript are.
\* Heights are counted in the unit in which baseHeight (4 pixels) is
\* 2^(Precision-1): every number of the format from baseHeight up is then an
\* integer.
BaseHeight == 2 ^ (Precision - 1)

\* the distance from n to the next number of the format, n >= BaseHeight
RECURSIVE Ulp(_)
Ulp(n) == IF n < 2 * BaseHeight THEN 1 ELSE 2 * Ulp(n \div 2)

\* the number of the format nearest to num / den, at least BaseHeight
Fl(num, den) ==
  LET g == Ulp(num \div den)
      q == num \div (den * g)
      r == num - q * den * g
  IN  CASE 2 * r < den * g -> q * g
        [] 2 * r > den * g -> (q + 1) * g
        [] OTHER -> IF q % 2 = 0 THEN q * g ELSE (q + 1) * g

\* n pixels, in the unit of the heights
Px(n) == (n * BaseHeight) \div BaseHeightPx

\* what the loudest sample (0, normalizedValue = 1) comes to:
\* amplifiedValue = Math.pow(1, 0.7) * 2.5 = 2.5, then
\* amplifiedValue * canvas.height * 0.8, each product rounded
PeakAmplitude == Fl(4 * Fl(5 * Px(CanvasHeight), 2), 5)

\* what a sample of the frame comes to, amplifiedValue * canvas.height * 0.8:
\* 0 for a sample at the midpoint 128, PeakAmplitude for the sample 0, else
\* a number of the format (Math.pow is implementation-approximated); the
\* numbers of the first binade above baseHeight stand for them
Amplitudes ==
  {0} \cup (BaseHeight + 1 .. 2 * BaseHeight - 1) \cup {PeakAmplitude}

\* an analysis frame, every sample given by what it comes to
Frames == [1 .. BufferLength -> Amplitudes]

Max(a, b) == IF a >= b THEN a ELSE b

\* faulty variant of TotalBars: the gap is not counted
TotalBarsNoGap(W) == W \div BarWidth

\* totalBars = Math.floor(canvas.width / (barWidth + barGap))
TotalBars(W) == W \div (BarWidth + BarGap)

\* faulty variant of Step: every bar reads the first sample
StepZero(W) == 0

\* step = Math.floor(bufferLength / totalBars) (not used when there is no bar)
Step(W) == IF TotalBars(W) = 0 THEN 0 ELSE BufferLength \div TotalBars(W)

\* dataIndex = i * step, for the bars i = 0 .. totalBars - 1
DataIndices(W) == [i \in 1 .. TotalBars(W) |-> (i - 1) * Step(W)]

\* faulty variant of BarHeight: the height is not floored
BarHeightUnfloored(value) == value

\* barHeight = Math.max(baseHeight, amplifiedValue * canvas.height * 0.8)
BarHeight(value) == Max(BaseHeight, value)

\* the first loop of draw(): bar i reads the sample at dataIndex = i * step
\* (dataArray is indexed from 0)
BarHeights(W, data) ==
  [i \in 1 .. TotalBars(W) |-> BarHeight(data[DataIndices(W)[i] + 1])]

\* faulty variant of SmoothedAt: the sum is always divided by 3
SmoothedAtFixedCount(heights, i) ==
  LET left == IF i > 1 THEN Fl(heights[i] + heights[i - 1], 1) ELSE heights[i]
      sum == IF i < Len(heights) THEN Fl(left + heights[i + 1], 1) ELSE left
  IN  Fl(sum, 3)

\* the second loop of draw(), for bar i: sum += barHeights[i - 1],
\* sum += barHeights[i + 1], smoothedHeights.push(sum / count)
SmoothedAt(heights, i) ==
  LET left == IF i > 1 THEN Fl(heights[i] + heights[i - 1], 1) ELSE heights[i]
      sum == IF i < Len(heights) THEN Fl(left + heights[i + 1], 1) ELSE left
      count == 1 + (IF i > 1 THEN 1 ELSE 0)
                 + (IF i < Len(heights) THEN 1 ELSE 0)
  IN  Fl(sum, count)

Smoothed(heights) == [i \in 1 .. Len(heights) |-> SmoothedAt(heights, i)]

\* the third loop of draw(): one roundRect per bar, at x = i * (barWidth +
\* barGap), of the smoothed height
Bars(W, heights) ==
  [i \in 1 .. TotalBars(W) |->
     [x |-> (i - 1) * (BarWidth + BarGap), height |-> heights[i]]]

\* draw() while the loop runs: the frame is read, the surface is cleared and
\* the bars are computed and drawn
DrawFrame(frame) ==
  /\ dataArray' = frame
  /\ dataIndices' = DataIndices(canvasWidth)
  /\ barHeights' = BarHeights(canvasWidth, frame)
  /\ smoothedHeights' = Smoothed(barHeights')
  /\ painted' = Bars(canvasWidth, smoothedHeights')
  /\ UNCHANGED canvasWidth
  /\ UNCHANGED <<pipelineVars, playerVars, recorderVars, microphoneVars>>
  /\ UNCHANGED <<appVars, animationVars>>

\* draw() called for the frame the analyser has filled in
NextRenderer == DrawFrame(dataArray)

\* a canvas of any width, as the effect that sizes it leaves it
\* (canvas.width = rect.width), and any frame, as getByteTimeDomainData
\* fills it in, before draw() computes the bars
InitRenderer ==
  /\ InitPipelineVars /\ InitPlayerVars /\ InitRecorderVars
  /\ InitMicrophoneVars /\ InitAppVars /\ InitAnimationVars
  /\ canvasWidth \in 0 .. MaxWidth
  /\ dataArray \in Frames
  /\ dataIndices = <<>>
  /\ barHeights = <<>>
  /\ smoothedHeights = <<>>
  /\ painted = <<>>

\* the renderer: draw() called for one frame after another
SpecRenderer == InitRenderer /\ [][NextRenderer]_vars

\* ================================================== starting twice
\* the record button clicked again while getUserMedia is pending: it still
\* shows "start" (isRecording is false) and is not disabled, so
\* startRecording() runs once more, up to its await
StartClickedAgain ==
  /\ ~shown /\ ~isRecording /\ starting
  /\ waiting < MaxWaiting
  /\ session.n + waiting + 1 < MaxSessions
  /\ waiting' = waiting + 1
  /\ UNCHANGED strays
  /\ UNCHANGED <<pipelineVars, playerVars, recorderVars, rendererVars>>
  /\ UNCHANGED <<appVars, animationVars>>

\* getUserMedia of a startRecording() that waited resolves, after that of
\* the call before it: initRealtimeVisualization assigns the new stream,
\* context, analyser and recorder to the refs over what they hold, and
\* startRecording goes on.  A stream that was live is live still, and no
\* ref leads to it.
StartOkAgain ==
  /\ waiting > 0 /\ ~starting
  /\ ~recorder.stopping
  /\ strays' = strays + (IF mic THEN 1 ELSE 0)
  /\ waiting' = waiting - 1
  /\ Acquired
  /\ isRecording' = TRUE
  /\ recordingTime' = 0
  /\ DrawRealTimeWave
  /\ timerRef' = TRUE
  /\ session' = NewSession
  /\ clips' = <<>>
  /\ UNCHANGED <<shown, starting, alerts, thrown>>
  /\ UNCHANGED <<audioURL, uploadVars, playerVars, rendererVars>>
  /\ UNCHANGED <<appVars, animationVars>>

\* VoiceRecorder with the microphone granted and no handler throwing, the
\* record button being clicked whenever it can be
NextMicrophone ==
  \/ StartClicked
  \/ StartClickedAgain
  \/ StartOk
  \/ StartOkAgain
  \/ recordingTime < MaxSeconds /\ TimerTick
  \/ StopClicked
  \/ Render
  \/ Draw
  \/ \E data \in ChunkData : MediaRecorderOnStop(data)

\* the microphone streams of one VoiceRecorder
SpecMicrophone == Init /\ [][NextMicrophone]_vars

\* ========================================================= AnimationsList
\* the statuses with which polling ends
TerminalStatuses == {"completed", "failed"}

\* the animations of the avatar as GET /avatar/{id}/animations returns
\* them, those numbered up to k, the newest first
RECURSIVE ServerList(_)
ServerList(k) ==
  IF k = 0
    THEN <<>>
    ELSE (IF serverStatus[k] = Null
            THEN <<>>
            ELSE <<Animation(k, serverStatus[k])>>) \o ServerList(k - 1)

\* setAnimations(prev => prev.map(anim => anim.id === updated.id ? updated
\* : anim)), the onUpdate callback of startPolling
Replaced(list, updated) ==
  [i \in 1 .. Len(list) |->
     IF list[i].id = updated.id THEN updated ELSE list[i]]

\* the entries of the list the polling effect calls startPolling for
ToPoll(list, polling) ==
  SelectSeq(list, LAMBDA a : /\ a.status \in {"pending", "processing"}
                             /\ a.id \notin polling)

\* pollAnimationStatus(id, onUpdate) up to its first `await`: poll() has
\* sent the first status request
NewLoop(n, id) == Loop(n, id, "request", 1, 0)

\* startPolling(animation), the loop it starts being loop number n
StartPollingAnimation(n, animation) ==
  IF animation.status \in TerminalStatuses
    THEN EmptyBag
    ELSE One(NewLoop(n, animation.id))

\* startPolling called for every entry of list, the loops being numbered
\* from n + 1
RECURSIVE StartPollingAll(_, _)
StartPollingAll(n, list) ==
  IF list = <<>>
    THEN EmptyBag
    ELSE StartPollingAnimation(n + 1, Head(list))
           (+) StartPollingAll(n + 1, Tail(list))

\* the render that follows the state updates of a handler, and the polling
\* effect (its dependencies are animations and pollingAnimations): every
\* pending or processing entry whose id the rendered set does not hold is
\* handed to startPolling.  The handler has left the list, the set and the
\* loops given, having started n loops itself.
PollingEffect(list, polling, loops, n) ==
  /\ started + n + Len(ToPoll(list, polling)) <= MaxLoops
  /\ animations' = list
  /\ pollingAnimations' =
       polling \cup {a.id : a \in {ToPoll(list, polling)[i] :
                                     i \in 1 .. Len(ToPoll(list, polling))}}
  /\ polls' = loops (+) StartPollingAll(started + n, ToPoll(list, polling))
  /\ started' = started + n + Len(ToPoll(list, polling))

\* the refresh button (or "try again"): loadAnimations() up to its await
LoadAnimations ==
  /\ ~loading
  /\ listRequests < MaxListRequests
  /\ listError' = Null
  /\ listRequests' = listRequests + 1
  /\ UNCHANGED <<animations, loading, pollingAnimations, newAnimation,
                 creating, polls, serverStatus, settled, started>>
  /\ UNCHANGED <<pipelineVars, playerVars, recorderVars, rendererVars>>
  /\ UNCHANGED <<microphoneVars, appVars>>

\* GET /avatar/{id}/animations answered: the list replaces the one held
ListResponded ==
  /\ listRequests > 0
  /\ listRequests' = listRequests - 1
  /\ loading' = FALSE
  /\ PollingEffect(ServerList(MaxAnimations), pollingAnimations, polls, 0)
  /\ UNCHANGED <<listError, newAnimation, creating, serverStatus, settled>>
  /\ UNCHANGED <<pipelineVars, playerVars, recorderVars, rendererVars>>
  /\ UNCHANGED <<microphoneVars, appVars>>

\* GET /avatar/{id}/animations failed: the catch of loadAnimations
ListFailed ==
  /\ listRequests > 0
  /\ listRequests' = listRequests - 1
  /\ loading' = FALSE
  /\ listError' = "Failed to fetch animations"
  /\ UNCHANGED <<animations, pollingAnimations, newAnimation, creating,
                 polls, serverStatus, settled, started>>
  /\ UNCHANGED <<pipelineVars, playerVars, recorderVars, rendererVars>>
  /\ UNCHANGED <<microphoneVars, appVars>>

\* AvatarAnimation.handleSubmit up to its await (the button is disabled
\* while isAnimating): POST /avatar/animate, the backend creating the
\* animation, pending, under the next identifier
AnimateSubmitted(id) ==
  /\ creating = NoAnimation
  /\ serverStatus[id] = Null
  /\ \A k \in AnimationIds : k < id => serverStatus[k] # Null
  /\ serverStatus' = [serverStatus EXCEPT ![id] = "pending"]
  /\ creating' = Animation(id, "pending")
  /\ UNCHANGED <<animations, loading, listError, pollingAnimations,
                 newAnimation, listRequests, polls, settled, started>>
  /\ UNCHANGED <<pipelineVars, playerVars, recorderVars, rendererVars>>
  /\ UNCHANGED <<microphoneVars, appVars>>

\* POST /avatar/animate answered: onAnimationStarted(animation) sets the
\* newAnimation prop, whose effect puts the animation at the head of the
\* list and calls startPolling for it
AnimationStarted ==
  /\ creating # NoAnimation
  /\ newAnimation' = creating
  /\ creating' = NoAnimation
  /\ PollingEffect(<<creating>> \o animations,
                   IF creating.status \in TerminalStatuses
                     THEN pollingAnimations
                     ELSE pollingAnimations \cup {creating.id},
                   polls (+) StartPollingAnimation(started + 1, creating),
                   1)
  /\ UNCHANGED <<loading, listError, listRequests, serverStatus, settled>>
  /\ UNCHANGED <<pipelineVars, playerVars, recorderVars, rendererVars>>
  /\ UNCHANGED <<microphoneVars, appVars>>

\* the backend works on animation id
ServerAdvances(id, status) ==
  /\ \/ serverStatus[id] = "pending" /\ status = "processing"
     \/ /\ serverStatus[id] \in {"pending", "processing"}
        /\ status \in TerminalStatuses
  /\ serverStatus' = [serverStatus EXCEPT ![id] = status]
  /\ UNCHANGED <<animations, loading, listError, pollingAnimations,
                 newAnimation, listRequests, creating, polls, settled,
                 started>>
  /\ UNCHANGED <<pipelineVars, playerVars, recorderVars, rendererVars>>
  /\ UNCHANGED <<microphoneVars, appVars>>

\* faulty variant of Updated: onUpdate is not called for a terminal status
UpdatedUnlessTerminal(loop, status) ==
  IF status \in TerminalStatuses
    THEN loop
    ELSE [loop EXCEPT !.updates = @ + 1]

\* poll() after `await getAnimationStatus`: onUpdate(animation) is called
\* for the animation received, whatever its status
Updated(loop, status) == [loop EXCEPT !.updates = @ + 1]

\* a status request of loop l is answered: onUpdate replaces the entry of
\* the list; for a terminal status the promise resolves and the `then` of
\* startPolling takes the id out of pollingAnimations, for another status
\* the timer of pollInterval is set
AnimationStatusResponded(l) ==
  /\ l \in BagToSet(polls)
  /\ l.phase = "request"
  /\ LET status == serverStatus[l.id]
         list == Replaced(animations, Animation(l.id, status))
         after == Updated(l, status)
     IN  IF status \in TerminalStatuses
           THEN /\ settled' = Settled(after, "resolved", status)
                /\ PollingEffect(list, pollingAnimations \ {l.id},
                                 polls (-) One(l), 0)
           ELSE /\ UNCHANGED settled
                /\ PollingEffect(list, pollingAnimations,
                                 (polls (-) One(l))
                                   (+) One([after EXCEPT !.phase = "timer"]),
                                 0)
  /\ UNCHANGED <<loading, listError, newAnimation, listRequests, creating,
                 serverStatus>>
  /\ UNCHANGED <<pipelineVars, playerVars, recorderVars, rendererVars>>
  /\ UNCHANGED <<microphoneVars, appVars>>

\* a status request of loop l fails (network failure or a status that is
\* not ok): poll() rejects the promise, and the `catch` of startPolling
\* takes the id out of pollingAnimations
AnimationStatusFailed(l) ==
  /\ l \in BagToSet(polls)
  /\ l.phase = "request"
  /\ settled' = Settled(l, "rejected", Null)
  /\ PollingEffect(animations, pollingAnimations \ {l.id},
                   polls (-) One(l), 0)
  /\ UNCHANGED <<loading, listError, newAnimation, listRequests, creating,
                 serverStatus>>
  /\ UNCHANGED <<pipelineVars, playerVars, recorderVars, rendererVars>>
  /\ UNCHANGED <<microphoneVars, appVars>>

\* the timer of loop l fires: poll() sends the next status request
AnimationPollTimerFired(l) ==
  /\ l \in BagToSet(polls)
  /\ l.phase = "timer"
  /\ l.requests < MaxPolls
  /\ polls' = (polls (-) One(l))
                (+) One([l EXCEPT !.phase = "request", !.requests = @ + 1])
  /\ UNCHANGED <<animations, loading, listError, pollingAnimations,
                 newAnimation, listRequests, creating, serverStatus, settled,
                 started>>
  /\ UNCHANGED <<pipelineVars, playerVars, recorderVars, rendererVars>>
  /\ UNCHANGED <<microphoneVars, appVars>>

NextAnimations ==
  \/ LoadAnimations
  \/ ListResponded
  \/ ListFailed
  \/ \E id \in AnimationIds : AnimateSubmitted(id)
  \/ AnimationStarted
  \/ \E id \in AnimationIds, status \in {"processing"} \cup TerminalStatuses :
       ServerAdvances(id, status)
  \/ \E l \in BagToSet(polls) : AnimationStatusResponded(l)
  \/ \E l \in BagToSet(polls) : AnimationStatusFailed(l)
  \/ \E l \in BagToSet(polls) : AnimationPollTimerFired(l)

\* the animations of one avatar: AvatarAnimation, AnimationsList and the
\* backend
SpecAnimations == Init /\ [][NextAnimations]_vars

\* the polling of the animations AvatarAnimation starts, the list not being
\* loaded meanwhile
NextPolling ==
  \/ \E id \in AnimationIds : AnimateSubmitted(id)
  \/ AnimationStarted
  \/ \E id \in AnimationIds, status \in {"processing"} \cup TerminalStatuses :
       ServerAdvances(id, status)
  \/ \E l \in BagToSet(polls) : AnimationStatusResponded(l)
  \/ \E l \in BagToSet(polls) : AnimationStatusFailed(l)
  \/ \E l \in BagToSet(polls) : AnimationPollTimerFired(l)

\* pollAnimationStatus as startPolling calls it
SpecPolling == Init /\ [][NextPolling]_vars

\* ===================================== recording while a clip is processed
\* the upload button, rendered while no recording is shown (audioURL &&
\* !isRecording): the first upload of the run
UploadClicked ==
  /\ ~shown
  /\ \A id \in JobIds : ~job[id].created
  /\ HandleUploadAudio

\* the steps of a pipeline that is in flight: the answers of the network,
\* the timers and the passing of time
PipelineSteps ==
  \/ \E i \in 1 .. Len(requests) : BlobFetched(i)
  \/ \E i \in 1 .. Len(requests) : BlobFetchFailed(i)
  \/ \E i \in 1 .. Len(requests), id \in JobIds : UploadResponded(i, id)
  \/ \E i \in 1 .. Len(requests) : UploadFailed(i)
  \/ \E i \in 1 .. Len(requests), s \in NonTerminal \cup {"completed", "failed"},
        v \in VoiceIds : StatusResponded(i, s, v)
  \/ \E i \in 1 .. Len(requests) : StatusRequestFailed(i)
  \/ \E t \in 1 .. Len(timers) : PollTimerFired(t)
  \/ \E t \in 1 .. Len(timers) : DelayTimerFired(t)
  \/ \E i \in 1 .. Len(requests), p \in Payloads : LoadResponded(i, p)
  \/ \E i \in 1 .. Len(requests) : LoadFailed(i)
  \/ Tick

\* VoiceRecorder with the microphone granted and no handler throwing: the
\* recordings, stopped by hand within MaxSeconds seconds, each handing over
\* one blob, and the pipeline of the first upload
NextSession ==
  \/ StartClicked
  \/ StartOk
  \/ recordingTime < MaxSeconds /\ TimerTick
  \/ StopClicked
  \/ Render
  \/ Draw
  \/ MediaRecorderOnStop(<<1>>)
  \/ UploadClicked
  \/ PipelineSteps

\* one VoiceRecorder: its recordings and the pipeline of its first upload.
\* Every request is answered and every timer fires: the event loop runs a
\* task that is ready.
SpecSession == Init /\ [][NextSession]_vars /\ WF_vars(PipelineSteps)

\* ======================================================= pipeline claims
\* the load requests of job id that are in flight
LoadsInFlight(id) == {i \in 1 .. Len(requests) :
                        requests[i].op = "load" /\ requests[i].id = id}
\* nothing of the pipeline is in flight and no timer is set
Quiescent == requests = <<>> /\ timers = <<>>
\* polling of job id ended with a failure in this step
PollingFails(id) ==
  job[id].terminal = Null /\ job'[id].terminal \in {"failed", "error"}
\* an upload request ended without a job in this step
UploadFails ==
  /\ \E i \in 1 .. Len(requests) : requests[i].op = "upload"
  /\ \A i \in 1 .. Len(requests') : requests'[i].op # "upload"
  /\ \A id \in JobIds : job'[id].created = job[id].created

\* C2: once a status response "failed" was received for a job, on the first
\* or on a later poll, no status request is in flight or scheduled for it,
\* none was issued beyond the one that was answered "failed", and the
\* Response Loader is neither invoked nor scheduled for it.
C2_FailedStopsPolling ==
  \A id \in JobIds :
    job[id].terminal = "failed" =>
      /\ InFlight(id) = {} /\ PollTimers(id) = {}
      /\ job[id].reqs = job[id].nonterm + 1
      /\ DelayTimers(id) = {} /\ LoadsInFlight(id) = {}
      /\ job[id].loads = <<>>
C2_Witness ==
  \E id \in JobIds : job[id].terminal = "failed" /\ job[id].nonterm >= 1

\* C3: in the step in which a status check ends polling with a failure
\* (status "failed" or a failed request), on the first check or on a check
\* made by the timer, error becomes non-null and isProcessing becomes false.
C3_FailureReported ==
  [][\A id \in JobIds :
       PollingFails(id) => processingError' # Null /\ ~isProcessing']_vars

\* the upload failed, polling failed or the load failed
PipelineFailed ==
  \/ uploadError # Null
  \/ chatError # Null
  \/ \E id \in JobIds : job[id].terminal \in {"failed", "error"}

\* C4: once the pipeline has failed (UploadFailed, ProcessingFailed or
\* LoadFailed) and has come to rest (nothing in flight, no timer set),
\* isUploading, isProcessing and isLoadingResponses are all false, so a new
\* upload of the recorded clip can be started.
C4_RetryableAtRest ==
  PipelineFailed /\ Quiescent =>
    ~isUploading /\ ~isProcessing /\ ~isLoadingResponses /\ UploadAllowed

\* C5: for a job whose status became "completed" the Response Loader is
\* invoked at most once, with the voiceId of the completed response and not
\* before CompletionDelay seconds have passed since that response; until it
\* is invoked exactly one invocation is scheduled; for no other job is it
\* invoked or scheduled.
C5_OneDelayedLoad ==
  \A id \in JobIds :
    IF job[id].terminal = "completed"
      THEN /\ Len(job[id].loads) + Cardinality(DelayTimers(id)) = 1
           /\ \A t \in DelayTimers(id) : timers[t].voice = job[id].voiceId
           /\ job[id].loads # <<>> =>
                /\ job[id].loads[1] = job[id].voiceId
                /\ job[id].clock >= CompletionDelay
      ELSE job[id].loads = <<>> /\ DelayTimers(id) = {}
C5_Witness ==
  \E id \in JobIds :
    /\ job[id].terminal = "completed" /\ job[id].nonterm >= 1
    /\ job[id].loads = <<job[id].voiceId>>

\* C6: for a job answered k non-terminal statuses and then "completed",
\* exactly k+1 status requests were issued, and after the terminal response
\* no status request is in flight or scheduled for it.
C6_RequestCount ==
  \A id \in JobIds :
    job[id].terminal = "completed" =>
      /\ job[id].reqs = job[id].nonterm + 1
      /\ InFlight(id) = {} /\ PollTimers(id) = {}
C6_Witness ==
  \E id \in JobIds :
    /\ job[id].terminal = "completed" /\ job[id].nonterm = 2
    /\ job[id].reqs = 3 /\ job[id].loads = <<"v1">>

\* C7: for every job at most one status request is in flight, at most one
\* check is scheduled, and none is scheduled while a request is in flight.
C7_SequentialChecks ==
  \A id \in JobIds :
    Cardinality(InFlight(id)) + Cardinality(PollTimers(id)) <= 1
C7_Witness ==
  \E id \in JobIds : job[id].reqs >= 2 /\ InFlight(id) # {}

\* C8: while every status response of a job was non-terminal and no request
\* failed, however many there were, polling goes on (a request is in flight
\* or the next check is scheduled at most PollInterval seconds ahead), the
\* orchestrator is processing and has reported no error.
C8_NoRetryCap ==
  \A id \in JobIds :
    job[id].reqs >= 1 /\ job[id].terminal = Null =>
      /\ Cardinality(InFlight(id)) + Cardinality(PollTimers(id)) = 1
      /\ \A t \in PollTimers(id) : timers[t].left <= PollInterval
      /\ isProcessing /\ processingError = Null
C8_Witness ==
  \E id \in JobIds :
    /\ job[id].terminal = Null /\ job[id].nonterm = MaxPolls
    /\ job[id].reqs = MaxPolls + 1 /\ InFlight(id) # {}

\* C9: in the step in which an upload request fails, error is set,
\* isUploading is false, no job was created, no status request or timer
\* exists, the loading flag is cleared and a new upload is allowed.
C9_UploadFailure ==
  [][UploadFails =>
       /\ uploadError' # Null /\ ~isUploading' /\ ~isLoadingResponses'
       /\ ~isProcessing'
       /\ \A i \in 1 .. Len(requests') : requests'[i].op # "status"
       /\ timers' = timers
       /\ UploadAllowed']_vars
C9_Witness ==
  uploadError # Null /\ Quiescent /\ UploadAllowed

\* ========================================================= player claims
\* C1: in every state at most one response clip is heard, under every
\* interleaving of playChatResponse calls, rejected play() promises,
\* fallback fetch completions and play / ended / error events.
C1_AtMostOneAudible == Cardinality(AudibleClips) <= 1

\* C10: after playChatResponse(A) was called with A the active clip, and
\* until the next call, the element it stopped is paused at position 0, the
\* hook holds no element of A and A is not heard: no new playback of A
\* follows from the call.
C10_ToggleStops ==
  lastCall.op = "toggle" =>
    /\ lastCall.stopped # NoAudio =>
         /\ lastCall.stopped.st \notin {"starting", "playing"}
         /\ lastCall.stopped.time = 0
    /\ currentAudio.clip # lastCall.clip
    /\ lastCall.clip \notin AudibleClips

\* the elements of clip c that are heard, among all that exist
Heard(c) == {a \in Playing(Audios) : a.clip = c}

\* C11: in the step of a call playChatResponse(B) made while another clip A
\* is active (currentlyPlaying = A) or holds the audio handle, A is paused
\* before play() is called on the element of B: no element of A is heard
\* when the call returns.
C11_StopsBeforePlay ==
  [][\A A, B \in ClipIds :
       /\ A # B
       /\ PlayStart(B)
       /\ currentlyPlaying = A \/ currentAudio.clip = A
       => Heard(A)' = {}]_vars

\* the active state is cleared after the step
Cleared == currentlyPlaying' = 0 /\ currentAudio' = NoAudio

\* C12: in the step in which the play() promise of a direct element is
\* rejected, a fetch of its clip is started; in the step in which that fetch
\* delivers the blob, a new element of the clip is made current and played;
\* in the step in which the fetch fails or the play() promise of the new
\* element is rejected, error is non-null, currentlyPlaying is null and the
\* audio handle is null.
C12_Fallback ==
  [][/\ \A held \in BOOLEAN : \A a \in Elements(held) :
          PlayRejected(a, held) =>
            IF a.kind = "direct"
              THEN /\ CopiesIn(a.clip, fetches') = CopiesIn(a.clip, fetches) + 1
                   /\ Cleared
              ELSE playerError' # Null /\ Cleared
     /\ \A c \in ClipIds :
          /\ FetchDone(c) =>
               /\ currentAudio'.clip = c /\ currentAudio'.kind = "fallback"
               /\ currentAudio'.st = "starting"
          /\ FetchFailed(c) => playerError' # Null /\ Cleared]_vars
\* the fallback fetch of the last call failed and nothing is active
C12_Witness ==
  /\ lastCall.op = "play"
  /\ playerError = "Failed to load chat response audio"
  /\ currentlyPlaying = 0 /\ currentAudio = NoAudio /\ fetches = EmptyBag

\* C13: after stopPlaying() was called, and until the next call, the element
\* it stopped is paused at position 0 and no clip is heard, also when a
\* fallback fetch of an earlier call was pending at the call.
C13_StopSilences ==
  lastCall.op = "stop" =>
    /\ lastCall.stopped # NoAudio =>
         /\ lastCall.stopped.st \notin {"starting", "playing"}
         /\ lastCall.stopped.time = 0
    /\ AudibleClips = {}

\* ====================================================== recording claims
\* a getUserMedia request ends without a stream in this step
AccessDenied == starting /\ ~starting' /\ ~mic'

\* C14: in the step in which microphone access is refused, isRecording stays
\* false, no recording timer is set, the refresh loop is not started and no
\* analysis frame is read, the user is alerted, and no new request for the
\* microphone is pending.
C14_DeniedStaysIdle ==
  [][AccessDenied =>
       /\ ~isRecording /\ ~isRecording'
       /\ ~timerRef'
       /\ ~isAnimatingRef' /\ ~animationIdRef'
       /\ session' = session
       /\ alerts' = alerts + 1
       /\ ~starting']_vars
C14_Witness ==
  alerts = 1 /\ session.n = 0 /\ ~starting /\ ~isRecording /\ ~timerRef

C16_StopsAtLimit ==
  session.ticks >= RecordingLimit => ~isRecording

\* a clip lists its chunks in the order in which they arrived
InArrivalOrder(clip) ==
  \A i, j \in 1 .. Len(clip) : i < j => clip[i] < clip[j]

\* C17: in every step in which the session stops recording, by the button
\* or by the timer, the recorder is stopped and its clip is on the way; a
\* session delivers at most one clip, none while it records, and the clip
\* lists the chunks in arrival order.
C17_StopDeliversClip ==
  [][/\ isRecording /\ ~isRecording' =>
          recorder'.state = "inactive" /\ recorder'.stopping
     /\ Len(clips') <= 1
     /\ isRecording' => clips' = <<>>
     /\ \A i \in 1 .. Len(clips') : InArrivalOrder(clips'[i])]_vars

\* the stream tracks are stopped, the audio context is closed, the timer is
\* cleared
Released ==
  ~mic /\ ~contextOpen /\ ~timerRef /\ ~streamRef /\ ~audioContextRef

C19_SecondStopNoEffect ==
  [][(StopClicked \/ StopClickedThrows) /\ ~isRecording =>
       recorder' = recorder /\ thrown' = thrown /\ clips' = clips]_vars

\* nothing is held by the hook: what stopVisualization() leaves
NothingHeld ==
  /\ ~streamRef /\ ~audioContextRef /\ ~analyserRef /\ ~mediaRecorderRef
  /\ ~isAnimatingRef /\ ~animationIdRef
  /\ ~mic /\ ~contextOpen /\ recorder.state = "inactive"

\* C20: after stopVisualization() the stream, audio context, analyser and
\* recorder refs are null and the devices are released; called when nothing
\* is held (a second time in a row, or before any start) it changes nothing
\* and raises no error.
C20_ReleaseIdempotent ==
  [][StopVisualization =>
       /\ NothingHeld'
       /\ thrown' = thrown
       /\ NothingHeld => UNCHANGED vars]_vars
\* the hook has recorded, was stopped and has handed over the clip
C20_Witness ==
  NothingHeld /\ session.n >= 1 /\ Len(clips) = 1 /\ ~recorder.stopping

\* C22: on every stop of a Capturing session the rendering surface is
\* cleared: from the stop on, until the next session paints its first frame,
\* the surface shows no bars of the last frame.
C22_ClearedOnStop == ~isRecording => canvas = "blank"

\* C23: starting a new session discards the clip of the previous one from
\* the controller state: the controller holds no clip (audioURL is null)
\* while a session is Capturing, nor right after a start that failed.
C23_PriorClipDiscarded ==
  [][/\ isRecording' => ~audioURL'
     /\ AccessDenied => ~audioURL']_vars

\* the recording has just been stopped
StopsRecording == isRecording /\ ~isRecording'

\* a pipeline is in flight: a request is awaited or a timer is set
PipelineInFlight == requests # <<>> \/ timers # <<>>

NoClips(p) == ~p.isArray \/ p.items = <<>>

\* C24: a payload that holds no clip gives zero results and no error, a
\* request that fails gives an error: the two outcomes differ in the state
\* they leave.
C24_EmptyIsNotFailure ==
  [][/\ \A i \in 1 .. Len(requests), p \in Payloads :
          LoadResponded(i, p) /\ NoClips(p) =>
            chatResponses' = <<>> /\ chatError' = Null
     /\ \A i \in 1 .. Len(requests) : LoadFailed(i) => chatError' # Null]_vars

\* C24: a load has ended with zero results and no error
C24_Witness ==
  /\ Quiescent /\ ~isLoadingResponses
  /\ \E id \in JobIds : job[id].loads # <<>>
  /\ chatResponses = <<>> /\ chatError = Null

\* C25: a load that succeeds replaces the collection by the array received.
C25_ReplacedWholesale ==
  [][\A i \in 1 .. Len(requests), p \in Payloads :
       LoadResponded(i, p) /\ p.isArray => chatResponses' = p.items]_vars

\* C25: the loads of two jobs have succeeded, the collection holds one clip
C25_Witness ==
  /\ Quiescent /\ ~isLoadingResponses /\ chatError = Null
  /\ \A id \in 1 .. 2 : job[id].loads # <<>>
  /\ chatResponses = <<1>>

\* C26: a load that fails leaves the loader with no responses: the
\* collection is empty and isLoadingResponses is false.
C26_FailedLoadEmpties ==
  [][\A i \in 1 .. Len(requests) :
       LoadFailed(i) => chatResponses' = <<>> /\ ~isLoadingResponses']_vars

\* ======================================================= pipeline, again
\* C30: at most one pipeline is active at a time: handleUploadAudio goes
\* ahead only when nothing of an earlier pipeline is left, and no two
\* requests or timers are ever pending together.
C30_OnePipeline ==
  [][/\ HandleUploadAudio => Quiescent
     /\ Len(requests') + Len(timers') <= 1]_vars

\* C30: the first pipeline has ended and the job of the second is polled
C30_Witness ==
  /\ job[1].terminal # Null
  /\ InFlight(2) # {}

\* ========================================================= player, again
\* PlaybackFailed for clip c: the fallback fetch of c fails, or the play()
\* promise of its fallback element is rejected
PlaybackFailed(c) ==
  \/ FetchFailed(c)
  \/ \E held \in BOOLEAN : \E a \in Elements(held) :
       a.clip = c /\ a.kind = "fallback" /\ PlayRejected(a, held)

\* C29: a playback failure of clip A changes nothing of the responses, the
\* recording and the upload, leaves no clip active (none is shown as playing
\* and none is heard), and a play(B) that follows a failure starts B alone.
C29_FailureScoped ==
  [][/\ \A A \in ClipIds :
          PlaybackFailed(A) =>
            /\ UNCHANGED <<pipelineVars, recorderVars, rendererVars, microphoneVars>>
            /\ currentlyPlaying' = 0 /\ AudibleClips' = {}
     /\ \A B \in ClipIds :
          PlayStart(B) /\ playerError # Null =>
            /\ currentAudio' = Audio(B, "direct")
            /\ AudibleClips' = {}]_vars

\* ======================================================= renderer claims
\* C27: the number of bars computed and drawn in one refresh is
\* floor(W / 5), whatever the frame holds.
C27_BarCount ==
  [][DrawFrame(dataArray') =>
       /\ Len(barHeights') = canvasWidth \div 5
       /\ Len(smoothedHeights') = canvasWidth \div 5
       /\ Len(painted') = canvasWidth \div 5]_vars

\* C27: three bars were drawn from a frame whose samples differ
C27_Witness ==
  /\ Len(painted) = 3
  /\ \E i, j \in 1 .. 3 : painted[i].height # painted[j].height

\* all unsmoothed heights of the last frame are equal
ConstantFrame ==
  \A i, j \in 1 .. Len(barHeights) : barHeights[i] = barHeights[j]

\* C28, as stated: when all unsmoothed heights are equal to h, every
\* smoothed height equals h.
C28_ConstantUnchanged ==
  ConstantFrame =>
    \A i \in 1 .. Len(barHeights) : smoothedHeights[i] = barHeights[i]

\* the distance between two numbers
Dist(a, b) == IF a >= b THEN a - b ELSE b - a

\* C28, amended: when all unsmoothed heights are equal to h, the smoothed
\* height of the two edge bars equals h, every other smoothed height is
\* within one unit in the last place of h, and it equals h when 3h is a
\* number of the format (as for the minimum height).
C28_ConstantWithinUlp ==
  ConstantFrame =>
    \A i \in 1 .. Len(barHeights) :
      LET h == barHeights[i]
      IN  /\ i \in {1, Len(barHeights)} => smoothedHeights[i] = h
          /\ Dist(smoothedHeights[i], h) <= Ulp(h)
          /\ Fl(3 * h, 1) = 3 * h => smoothedHeights[i] = h

\* C28: a constant frame of three bars or more whose inner bars are off by
\* one unit in the last place
C28_Witness ==
  /\ Len(barHeights) >= 3 /\ ConstantFrame
  /\ Dist(smoothedHeights[2], barHeights[2]) = Ulp(barHeights[2])
  /\ smoothedHeights[1] = barHeights[1]

\* ================================================= upload claims, continued
\* C31: every successful upload starts status polling for the identifier
\* the backend assigned, 0 included, and is not treated as a failed one
\* (the loading flag stays set, the job is being processed).
C31_UploadStartsPolling ==
  [][\A i \in 1 .. Len(requests), id \in JobIds :
       UploadResponded(i, id) =>
         /\ \E k \in 1 .. Len(requests') :
              requests'[k].op = "status" /\ requests'[k].id = id
         /\ isProcessing' /\ isLoadingResponses']_vars

\* ====================================================== microphone claims
\* the number of microphone streams whose tracks are live
LiveStreams == strays + (IF mic THEN 1 ELSE 0)

\* C32: at most one microphone stream is live at a time, and none is live
\* once the recording has been stopped and no start is pending, also when
\* start is invoked again while an earlier start waits for the microphone.
C32_StreamsReleased ==
  /\ LiveStreams <= 1
  /\ ~isRecording /\ ~starting /\ waiting = 0 => LiveStreams = 0

\* ================================================ player claims, continued
\* C33: whenever a clip is heard, the hook holds its element (currentAudio
\* is the element heard), and currentlyPlaying is that clip once its play
\* event has been delivered: no element that is heard is out of the reach
\* of stopPlaying() and of a later playChatResponse().
C33_AudibleIsHeld ==
  /\ Playing(orphans) = {}
  /\ currentAudio.st = "playing" /\ ~currentAudio.evt =>
       currentlyPlaying = currentAudio.clip

\* ======================================================== application claims
\* C34: when the delayed callback of a completed job runs, App records the
\* voice as cloned: isVoiceCloned becomes true and the voiceId of the job
\* is stored, so that the avatar tab is enabled.
C34_VoiceClonedRecorded ==
  [][\A t \in 1 .. Len(timers) :
       DelayTimerFired(t) =>
         isVoiceCloned' /\ clonedVoiceId' = timers[t].voice]_vars

\* ======================================================== animation claims
\* the loops that poll animation id
LoopsFor(id) == {l \in BagToSet(polls) : l.id = id}

\* C36: at most one polling loop is active per animation id, and
\* pollingAnimations holds exactly the ids that have an active loop, under
\* every interleaving of the initial load, a refresh, the arrival of
\* newAnimation and the ends of polling.
C36_OneLoopPerAnimation ==
  /\ \A id \in AnimationIds : Cardinality(LoopsFor(id)) <= 1
  /\ pollingAnimations = {l.id : l \in BagToSet(polls)}

\* C37: an error of a status request ends the polling of the animation: no
\* polling loop is started for it in the same step (none can be before the
\* list is loaded again or a new animation arrives).
C37_ErrorEndsPolling ==
  [][\A l \in BagToSet(polls) :
       AnimationStatusFailed(l) =>
         \A m \in BagToSet(polls') : m.id = l.id => m \in BagToSet(polls)]_vars

\* the loop numbered n runs
Runs(n, loops) == \E m \in BagToSet(loops) : m.n = n

\* C35: pollAnimationStatus calls onUpdate once for every status response,
\* the terminal one included, before it resolves; it resolves once, with
\* the first animation whose status is completed or failed (a failed
\* animation resolves, it does not reject); it rejects on a request error;
\* and it sends no status request after a terminal response or an error.
C35_PollAnimationStatus ==
  /\ [](/\ \A l \in BagToSet(polls) :
            l.updates = IF l.phase = "request"
                          THEN l.requests - 1
                          ELSE l.requests
        /\ settled.outcome = "resolved" =>
             /\ settled.status \in TerminalStatuses
             /\ settled.updates = settled.requests
        /\ settled.outcome = "rejected" =>
             settled.updates = settled.requests - 1)
  /\ [][\A l \in BagToSet(polls) :
         /\ AnimationStatusResponded(l) =>
              IF serverStatus[l.id] \in TerminalStatuses
                THEN /\ settled'.n = l.n
                     /\ settled'.outcome = "resolved"
                     /\ settled'.status = serverStatus[l.id]
                     /\ settled'.requests = l.requests
                     /\ ~Runs(l.n, polls')
                ELSE /\ UNCHANGED settled
                     /\ \E m \in BagToSet(polls') :
                          /\ m.n = l.n /\ m.phase = "timer"
                          /\ m.requests = l.requests
         /\ AnimationStatusFailed(l) =>
              /\ settled'.n = l.n
              /\ settled'.outcome = "rejected"
              /\ settled'.requests = l.requests
              /\ ~Runs(l.n, polls')]_vars

\* C35: a loop has resolved with a failed animation at its second response
C35_Witness ==
  /\ settled.outcome = "resolved" /\ settled.status = "failed"
  /\ settled.requests = 2 /\ settled.updates = 2

\* ============================================== renderer claims, continued
\* C38: with at least one bar, bar i (from 0) reads the frame at index
\* i * floor(N / totalBars), which lies within the frame; when there are no
\* more bars than samples the indices increase strictly, by equal steps.
C38_SampleIndices ==
  LET bars == canvasWidth \div 5
      N == BufferLength
  IN  Len(dataIndices) >= 1 =>
        /\ \A i \in 0 .. bars - 1 :
             /\ dataIndices[i + 1] = i * (N \div bars)
             /\ dataIndices[i + 1] \in 0 .. N - 1
             /\ barHeights[i + 1] =
                  Max(BaseHeight, dataArray[dataIndices[i + 1] + 1])
        /\ bars <= N =>
             \A i \in 1 .. bars - 1 :
               /\ dataIndices[i + 1] > dataIndices[i]
               /\ dataIndices[i + 1] - dataIndices[i] = dataIndices[2]

\* C38: a frame of three samples that differ has been drawn as three bars
C38_Witness ==
  /\ Len(dataIndices) = BufferLength
  /\ \A i, j \in 1 .. BufferLength :
       i # j => barHeights[i] # barHeights[j]

\* C39: every bar height is at least the minimum visible value, before
\* smoothing and after it.
C39_MinimumHeight ==
  /\ \A i \in 1 .. Len(barHeights) : barHeights[i] >= Px(4)
  /\ \A i \in 1 .. Len(smoothedHeights) : smoothedHeights[i] >= Px(4)
  /\ \A i \in 1 .. Len(painted) : painted[i].height >= Px(4)

\* C39: a frame with a silent sample between louder ones has been drawn
C39_Witness ==
  /\ Len(barHeights) >= 3
  /\ dataArray[dataIndices[2] + 1] = 0
  /\ barHeights[2] = BaseHeight
  /\ barHeights[1] > BaseHeight /\ barHeights[3] > BaseHeight
  /\ smoothedHeights[2] > BaseHeight

\* C40: every bar drawn fits on the surface: its height is at most the
\* height of the canvas, for every sample value, the extremes included.
C40_BarsFit ==
  \A i \in 1 .. Len(painted) : painted[i].height <= Px(CanvasHeight)

====
